---- MODULE Spec2Model ----
(***************************************************************************)
(* ALDOT traffic dashboard: the SQLite incident store (database.py), the   *)
(* work-zone correlation and the hot-spot clustering (app/calculations.py),*)
(* the ingestion (data/api.py), the script run (app/main.py) and the       *)
(* ranking table (app/tabs/danger_rankings.py).                            *)
(*                                                                         *)
(* A nullable value (SQL NULL, Python None, pandas NaN) is modelled as a   *)
(* set with at most one element: None is the empty set, Some(v) is {v}.    *)
(* A timestamp is a tick count; TicksPerDay ticks make one calendar day.   *)
(* The start_time column holds the text of a timestamp, in the format of   *)
(* the writer that stored it.                                              *)
(* Only the columns that the constraints, the filters and the analytics    *)
(* read are modelled; the remaining TEXT columns are stored and selected   *)
(* the way severity and county are.                                        *)
(***************************************************************************)
EXTENDS Integers, Sequences, FiniteSets, TLC

VARIABLES
    feed,       \* the event dicts the callers of upsert_events draw from
    store,      \* rows of table traffic_events (committed)
    lastCall,   \* outcome of the latest upsert_events call
    latest,     \* per identity, the version of the latest committed upsert
    pc,         \* "idle", "queried" while a DataFrame is held, "accessed"
                \* while the return value of an accessor is held
    qf,         \* arguments of the query_events call that produced df
    df,         \* the DataFrame returned by query_events (a sequence of rows)
    \* calculate_construction_zone_crashes
    crashes,                \* argument: the crash rows, in DataFrame order
    roadwork,               \* argument: the roadwork rows, in DataFrame order
    cpc,                    \* position: "off", "start", "index", "scan", "done"
    ck,                     \* rows of the current loop already visited
    roadwork_by_location,   \* (road, county) -> list of start_mm
    construction_crashes,   \* the running count, returned at "done"
    added,                  \* per crash visited, what it added to the count
    \* find_crash_clusters
    points,         \* argument: the crash rows, in DataFrame order
    coords,         \* start latitudes of the rows that dropna keeps
    kpc,            \* position: "off", "start", "outer", "inner", "done"
    ki,             \* index i of the outer loop
    kj,             \* index j of the inner loop
    assigned,       \* the set `assigned`
    cluster_points, \* the list `cluster_points` of the open group
    cluster_ids,    \* column cluster_id, per index
    cluster_id,     \* the next cluster id
    seeds,          \* indices that opened a group
    compared,       \* pairs <<i, j>> whose distance was computed
    \* calculate_danger_score
    severity_series,    \* argument: the severity column of a group
    spc,                \* position: "off", "start", "loop", "done"
    sk,                 \* items of SEVERITY_WEIGHTS already visited
    score,              \* the running score, returned at "done"
    \* calculate_avg_clearance_minutes, calculate_avg_clearance_time
    clearance_crashes,  \* argument: None, or the crash rows
    lpc,                \* position: "off", "start", "done"
    avg_minutes,        \* what calculate_avg_clearance_minutes returned
    shown,              \* what calculate_avg_clearance_time returned
    \* the accessors of database.py
    acc,                \* the latest accessor call and what it returned
    \* get_api_response and update_events
    responses,          \* per event type, what the API answers
    ipc,                \* position: "off", "fetch", "upsert", "done", "raised"
    ik,                 \* event types already fetched
    all_events,         \* the list `all_events`
    \* run (app/main.py)
    rpc,                \* position: "off", "start", "crashes", "prev", "tabs"
    frames,             \* the DataFrames crashes, prev_crashes and roadwork
    \* the transaction of upsert_events, statement by statement
    tpc,                \* position: "off", "idle", "open", "deleted"
    working,            \* the table as the writing connection sees it
    pending,            \* the rows executemany has not reached yet
    everStored,         \* the identities some committed transaction stored
    reading,            \* when the latest read ran, and what was stored then
    \* _display_danger_table
    rank_rows,          \* argument: the crash rows, in DataFrame order
    configured,         \* the value of SEVERITY_WEIGHTS in config.py
    gpc,                \* position: "off", "start", "done"
    stats,              \* the table that is rendered
    \* find_crash_clusters, after the loops
    cluster_stats       \* the DataFrame returned

storeVars == <<feed, store, lastCall, latest, pc, qf, df>>
corrVars == <<crashes, roadwork, cpc, ck, roadwork_by_location,
              construction_crashes, added>>
clusterVars == <<points, coords, kpc, ki, kj, assigned, cluster_points,
                 cluster_ids, cluster_id, seeds, compared>>
scoreVars == <<severity_series, spc, sk, score>>
clearVars == <<clearance_crashes, lpc, avg_minutes, shown>>
ingestVars == <<responses, ipc, ik, all_events>>
runVars == <<rpc, frames>>
txnVars == <<tpc, working, pending, everStored, reading>>
rankVars == <<rank_rows, configured, gpc, stats>>
moreVars == <<ingestVars, runVars, txnVars, rankVars, cluster_stats>>
statVars == <<scoreVars, clearVars, acc, moreVars>>
vars == <<storeVars, corrVars, clusterVars, statVars>>

----------------------------------------------------------------------------
(* Bounds *)

MaxId == 2          \* identities are 1..MaxId
MaxBatch == 2       \* events per upsert_events call
TicksPerDay == 2    \* timestamps per calendar day
MaxDay == 1         \* calendar days are 0..MaxDay

----------------------------------------------------------------------------
(* Nullable values *)

None == {}
Some(v) == {v}
IsNull(x) == x = {}
Val(x) == CHOOSE v \in x : TRUE

Ids == 1..MaxId
Days == 0..MaxDay

\* the first and the last timestamp of each calendar day
FirstTick(d) == d * TicksPerDay
LastTick(d) == (d + 1) * TicksPerDay - 1
Ticks == {FirstTick(d) : d \in Days} \cup {LastTick(d) : d \in Days}

----------------------------------------------------------------------------
(* Event dicts handed to upsert_events (the keys of the INSERT statement) *)

\* start_time is a TEXT value. The API path writes it with
\* strftime("%Y-%m-%d %H:%M:%S"), migrate_from_csv with Timestamp.isoformat(),
\* which puts a "T" between the date and the time of day.
ApiText(t) == [t |-> t, sep |-> " "]
IsoText(t) == [t |-> t, sep |-> "T"]

BaseEvent(id) ==
    [event_id        |-> id,
     category        |-> Some("Crash"),
     severity        |-> Some("Major"),
     county          |-> Some("Autauga"),
     start_time      |-> Some(ApiText(0)),
     active          |-> Some(1),
     start_latitude  |-> Some(0),
     start_longitude |-> Some(0)]

\* versions of one identity that differ in a nullable column
FeedIdentity ==
    {[BaseEvent(i) EXCEPT !.severity = s] :
        i \in Ids, s \in {Some("Major"), Some("Minor"), None}}
    \cup {[BaseEvent(i) EXCEPT !.county = None, !.active = None] : i \in Ids}

\* a well-formed version and the versions that lack a NOT NULL column
FeedMalformed ==
    {BaseEvent(i) : i \in Ids}
    \cup {[BaseEvent(i) EXCEPT !.category = None] : i \in Ids}
    \cup {[BaseEvent(i) EXCEPT !.start_time = None] : i \in Ids}
    \cup {[BaseEvent(i) EXCEPT !.start_latitude = None] : i \in Ids}
    \cup {[BaseEvent(i) EXCEPT !.start_longitude = None] : i \in Ids}

FeedCounty ==
    {[BaseEvent(i) EXCEPT !.county = c] :
        i \in Ids, c \in {Some("Autauga"), Some("Baldwin"), None}}
    \cup {[BaseEvent(i) EXCEPT !.county = Some("Baldwin"), !.severity = None] :
            i \in Ids}

FeedCategory ==
    {[BaseEvent(i) EXCEPT !.active = a] :
        i \in Ids, a \in {Some(1), Some(0), None}}
    \cup {[BaseEvent(i) EXCEPT !.category = Some("Roadwork")] : i \in Ids}

\* start times on the first and the last calendar day
FeedTime ==
    {[BaseEvent(i) EXCEPT !.start_time = Some(ApiText(t))] :
        i \in Ids,
        t \in {FirstTick(0), LastTick(0), FirstTick(MaxDay), LastTick(MaxDay)}}

\* a store that holds rows migrated from the CSV file next to API rows
FeedMigrated ==
    {[BaseEvent(i) EXCEPT !.start_time = Some(x)] :
        i \in Ids,
        x \in {IsoText(FirstTick(0)), ApiText(LastTick(0))}}

Batches(events) ==
    UNION {[1..n -> events] : n \in 0..MaxBatch}

----------------------------------------------------------------------------
(* database.py: the table and upsert_events *)

\* CREATE TABLE: category, start_time, start_latitude and start_longitude
\* are NOT NULL
ViolatesNotNull(e) ==
    \/ IsNull(e.category)
    \/ IsNull(e.start_time)
    \/ IsNull(e.start_latitude)
    \/ IsNull(e.start_longitude)

\* (mutant) a plain INSERT that leaves the row with the same event_id in place
InsertKeepingOld(rows, e) == rows \cup {e}

\* (mutant) INSERT OR IGNORE: the stored row wins over the new one
InsertOrIgnore(rows, e) ==
    IF \E r \in rows : r.event_id = e.event_id THEN rows ELSE rows \cup {e}

\* INSERT OR REPLACE of one row: event_id is the PRIMARY KEY, so the row
\* holding the same event_id is deleted before the new row is inserted
InsertOrReplace(rows, e) ==
    {r \in rows : r.event_id # e.event_id} \cup {e}

\* executemany: the rows in order inside one transaction; a NOT NULL
\* violation aborts the statement and raises sqlite3.IntegrityError
RECURSIVE ExecuteMany(_, _)
ExecuteMany(rows, events) ==
    IF events = <<>> THEN [ok |-> TRUE, rows |-> rows]
    ELSE IF ViolatesNotNull(Head(events)) THEN [ok |-> FALSE, rows |-> rows]
    ELSE ExecuteMany(InsertOrReplace(rows, Head(events)), Tail(events))

\* whether some row of the batch replaced a row (stored, or earlier in the batch)
Replaces(rows, events) ==
    \/ \E k \in DOMAIN events : \E r \in rows : r.event_id = events[k].event_id
    \/ \E j, k \in DOMAIN events : j < k /\ events[j].event_id = events[k].event_id

\* the version of identity i that a committed batch leaves behind
LatestAfter(old, events) ==
    [i \in Ids |->
        LET ks == {k \in DOMAIN events : events[k].event_id = i}
        IN  IF ks = {} THEN old[i]
            ELSE Some(events[CHOOSE k \in ks : \A j \in ks : j <= k])]

\* upsert_events with an empty list: returns 0 without opening a connection
UpsertNothing ==
    /\ pc = "idle"
    /\ UNCHANGED vars

\* upsert_events, every row accepted: conn.commit() makes the batch visible
UpsertCommit ==
    /\ pc = "idle"
    /\ \E events \in Batches(feed) :
        LET r == ExecuteMany(store, events)
        IN  /\ events # <<>>
            /\ r.ok
            /\ store' = r.rows
            /\ lastCall' = IF Replaces(store, events) THEN "replaced" ELSE "inserted"
            /\ latest' = LatestAfter(latest, events)
    /\ UNCHANGED <<feed, pc, qf, df, corrVars, clusterVars, statVars>>

\* upsert_events, a row rejected: the exception leaves the with-block before
\* conn.commit(), conn.close() discards the open transaction
UpsertRaise ==
    /\ pc = "idle"
    /\ \E events \in Batches(feed) :
        /\ events # <<>>
        /\ ~ExecuteMany(store, events).ok
    /\ lastCall' = "IntegrityError"
    /\ UNCHANGED <<feed, store, latest, pc, qf, df, corrVars, clusterVars, statVars>>

----------------------------------------------------------------------------
(* database.py: query_events *)

\* (mutant) the full timestamp is compared instead of its calendar day
Timestamp(t) == t

\* SQLite date(): the calendar day of a timestamp
Date(t) == t \div TicksPerDay

\* SQLite date() of a stored text: both separators are accepted
DateOfText(x) == Date(x.t)

\* Python truthiness of an Optional[list]: None and [] are both falsy
Truthy(lst) == ~IsNull(lst) /\ Val(lst) # {}

\* (mutant) the sentinel is not looked for
RestrictsWithoutSentinel(lst) == Truthy(lst)

\* `if xs and "All" not in xs`: the IN condition is appended
Restricts(lst) == Truthy(lst) /\ "All" \notin Val(lst)

\* (mutant) the list starts empty instead of with the two coordinate tests
ConditionsWithoutCoordinates(f) ==
    (IF ~IsNull(f.start_date) THEN {"date(start_time) >= date(?)"} ELSE {})
    \cup (IF ~IsNull(f.end_date) THEN {"date(start_time) <= date(?)"} ELSE {})
    \cup (IF Restricts(f.counties) THEN {"county IN"} ELSE {})
    \cup (IF Restricts(f.categories) THEN {"category IN"} ELSE {})
    \cup (IF Restricts(f.severities) THEN {"severity IN"} ELSE {})
    \cup (IF f.active_only THEN {"active = 1"} ELSE {})

\* the list `conditions` that query_events builds
Conditions(f) ==
    {"start_latitude IS NOT NULL", "start_longitude IS NOT NULL"}
    \cup (IF ~IsNull(f.start_date) THEN {"date(start_time) >= date(?)"} ELSE {})
    \cup (IF ~IsNull(f.end_date) THEN {"date(start_time) <= date(?)"} ELSE {})
    \cup (IF Restricts(f.counties) THEN {"county IN"} ELSE {})
    \cup (IF Restricts(f.categories) THEN {"category IN"} ELSE {})
    \cup (IF Restricts(f.severities) THEN {"severity IN"} ELSE {})
    \cup (IF f.active_only THEN {"active = 1"} ELSE {})

\* SQL evaluation of one condition on one row; a comparison with NULL is
\* not true
Holds(c, r, f) ==
    CASE c = "start_latitude IS NOT NULL" -> ~IsNull(r.start_latitude)
      [] c = "start_longitude IS NOT NULL" -> ~IsNull(r.start_longitude)
      [] c = "date(start_time) >= date(?)" ->
            \E x \in r.start_time : DateOfText(x) >= Date(Val(f.start_date))
      [] c = "date(start_time) <= date(?)" ->
            \E x \in r.start_time : DateOfText(x) <= Date(Val(f.end_date))
      [] c = "county IN" -> \E v \in r.county : v \in Val(f.counties)
      [] c = "category IN" -> \E v \in r.category : v \in Val(f.categories)
      [] c = "severity IN" -> \E v \in r.severity : v \in Val(f.severities)
      [] c = "active = 1" -> \E v \in r.active : v = 1

\* (mutant) the conditions after the coordinate tests joined with OR
WhereAny(r, f) ==
    /\ ~IsNull(r.start_latitude)
    /\ ~IsNull(r.start_longitude)
    /\ \E c \in Conditions(f) : Holds(c, r, f)

\* where_clause = " AND ".join(conditions)
Where(r, f) == \A c \in Conditions(f) : Holds(c, r, f)

\* the rows the SELECT returns
QueryRows(rows, f) == {r \in rows : Where(r, f)}

\* comparison of two TEXT values (BINARY collation): the date, then the
\* separator (" " sorts below "T"), then the time of day
TextGeq(a, b) ==
    IF Date(a.t) # Date(b.t) THEN Date(a.t) > Date(b.t)
    ELSE IF a.sep # b.sep THEN a.sep = "T"
    ELSE a.t >= b.t

\* ORDER BY start_time DESC: NULL sorts last, ties come in any order
StartTimeGeq(a, b) ==
    \/ IsNull(b.start_time)
    \/ /\ ~IsNull(a.start_time)
       /\ TextGeq(Val(a.start_time), Val(b.start_time))

OrderByStartTimeDesc(rows) ==
    {s \in [1..Cardinality(rows) -> rows] :
        /\ \A i, j \in DOMAIN s : i # j => s[i] # s[j]
        /\ \A i, j \in DOMAIN s : i < j => StartTimeGeq(s[i], s[j])}

NoFilters ==
    [start_date |-> None, end_date |-> None, counties |-> None,
     categories |-> None, severities |-> None, active_only |-> FALSE]

\* calls that vary the county and severity lists
FiltersCounty ==
    {[NoFilters EXCEPT !.counties = c, !.severities = s] :
        c \in {None, Some({}), Some({"All"}), Some({"Autauga"}),
               Some({"Autauga", "Baldwin"}), Some({"All", "Baldwin"})},
        s \in {None, Some({}), Some({"All"}), Some({"Major"}), Some({"Minor"})}}

\* calls that vary the category list and the active-only flag
FiltersCategory ==
    {[NoFilters EXCEPT !.categories = c, !.active_only = a] :
        c \in {None, Some({}), Some({"All"}), Some({"Crash"}), Some({"Roadwork"}),
               Some({"All", "Roadwork"})},
        a \in BOOLEAN}

\* calls that vary the date range
FiltersDate ==
    {[NoFilters EXCEPT !.start_date = s, !.end_date = e] :
        s \in {None} \cup {Some(t) : t \in Ticks},
        e \in {None} \cup {Some(t) : t \in Ticks}}

\* calls that set or omit each of the six arguments independently
FiltersCombined ==
    {[start_date  |-> sd, end_date |-> ed, counties |-> c,
      categories  |-> k, severities |-> s, active_only |-> a] :
        sd \in {None, Some(FirstTick(MaxDay))},
        ed \in {None, Some(FirstTick(0))},
        c \in {None, Some({"Baldwin"})},
        k \in {None, Some({"Roadwork"})},
        s \in {None, Some({"Major"})},
        a \in BOOLEAN}

Filters == FiltersCounty \cup FiltersCategory \cup FiltersDate \cup FiltersCombined

\* query_events: one SELECT on a fresh connection, read into a DataFrame
QueryEvents ==
    /\ pc = "idle"
    /\ \E f \in Filters :
        /\ qf' = f
        /\ df' \in OrderByStartTimeDesc(QueryRows(store, f))
    /\ pc' = "queried"
    /\ UNCHANGED <<feed, store, lastCall, latest, corrVars, clusterVars, statVars>>

\* the script run that held the DataFrame ends
Discard ==
    /\ pc = "queried"
    /\ pc' = "idle"
    /\ qf' = NoFilters
    /\ df' = <<>>
    /\ UNCHANGED <<feed, store, lastCall, latest, corrVars, clusterVars, statVars>>

----------------------------------------------------------------------------------------------------------------------------------------
(* The store specifications *)

\* the analytics are not running
CorrOff ==
    /\ crashes = <<>>
    /\ roadwork = <<>>
    /\ cpc = "off"
    /\ ck = 0
    /\ roadwork_by_location = <<>>
    /\ construction_crashes = 0
    /\ added = <<>>

ClusterOff ==
    /\ points = <<>>
    /\ coords = <<>>
    /\ kpc = "off"
    /\ ki = 0
    /\ kj = 0
    /\ assigned = {}
    /\ cluster_points = <<>>
    /\ cluster_ids = <<>>
    /\ cluster_id = 0
    /\ seeds = {}
    /\ compared = {}

ScoreOff ==
    /\ severity_series = <<>>
    /\ spc = "off"
    /\ sk = 0
    /\ score = 0

ClearOff ==
    /\ clearance_crashes = None
    /\ lpc = "off"
    /\ avg_minutes = None
    /\ shown = [text |-> "off", value |-> 0]

IngestOff ==
    /\ responses = <<>>
    /\ ipc = "off"
    /\ ik = 0
    /\ all_events = <<>>

RunOff ==
    /\ rpc = "off"
    /\ frames = <<>>

TxnOff ==
    /\ tpc = "off"
    /\ working = {}
    /\ pending = <<>>
    /\ everStored = {}
    /\ reading = <<>>

RankOff ==
    /\ rank_rows = <<>>
    /\ configured = <<>>
    /\ gpc = "off"
    /\ stats = <<>>

\* no accessor has been called
NoAccess ==
    [name |-> "none", column |-> "", list |-> <<>>, stamps |-> <<>>, count |-> 0]

\* init_db on a fresh database file: the table exists and is empty
StoreEmpty ==
    /\ store = {}
    /\ lastCall = "none"
    /\ latest = [i \in Ids |-> None]
    /\ pc = "idle"
    /\ qf = NoFilters
    /\ df = <<>>

Init ==
    /\ feed \in {FeedIdentity, FeedMalformed}
    /\ StoreEmpty
    /\ CorrOff
    /\ ClusterOff
    /\ ScoreOff
    /\ ClearOff
    /\ acc = NoAccess
    /\ IngestOff
    /\ RunOff
    /\ TxnOff
    /\ RankOff
    /\ cluster_stats = <<>>

Next ==
    \/ UpsertNothing
    \/ UpsertCommit
    \/ UpsertRaise
    \/ QueryEvents
    \/ Discard

Spec == Init /\ [][Next]_vars

\* the same store, fed with events that differ in the filtered columns
InitQuery ==
    /\ feed \in {FeedCounty, FeedCategory, FeedTime, FeedMigrated, FeedMalformed}
    /\ StoreEmpty
    /\ CorrOff
    /\ ClusterOff
    /\ ScoreOff
    /\ ClearOff
    /\ acc = NoAccess
    /\ IngestOff
    /\ RunOff
    /\ TxnOff
    /\ RankOff
    /\ cluster_stats = <<>>

SpecQuery == InitQuery /\ [][Next]_vars

----------------------------------------------------------------------------
(* app/calculations.py: calculate_construction_zone_crashes *)

MaxCrashes == 2     \* rows of the crashes DataFrame
MaxRoadwork == 2    \* rows of the roadwork DataFrame

\* `abs(crash_mm - rw_mm) <= 2`
WorkZoneTolerance == 2

Abs(x) == IF x < 0 THEN 0 - x ELSE x

Row(road, county, mm) == [Road |-> road, County |-> county, MileMarker |-> mm]

\* crash rows: with and without a mile marker, on the road that has
\* roadwork, on another road, and lacking the road or the county
CrashRows ==
    {Row(Some("US-80"), Some("Dallas"), None),
     Row(Some("US-80"), Some("Dallas"), Some(10)),
     Row(Some("I-65"), Some("Dallas"), Some(10)),
     Row(None, Some("Dallas"), Some(10)),
     Row(Some("US-80"), None, Some(10))}

\* roadwork rows: without a marker, 2 miles and 10 miles from the crash
\* marker, and lacking the road or the county
RoadworkRows ==
    {Row(Some("US-80"), Some("Dallas"), None),
     Row(Some("US-80"), Some("Dallas"), Some(12)),
     Row(Some("US-80"), Some("Dallas"), Some(20)),
     Row(None, Some("Dallas"), Some(12)),
     Row(Some("US-80"), None, Some(12))}

SeqsUpTo(S, n) == UNION {[1..m -> S] : m \in 0..n}

Range(s) == {s[k] : k \in DOMAIN s}

Key(row) == <<row.Road, row.County>>

\* (mutant) the roadwork loop without its `continue`
IndexRoadworkUnchecked(index, rw) ==
    IF Key(rw) \in DOMAIN index
    THEN [index EXCEPT ![Key(rw)] = Append(@, rw.MileMarker)]
    ELSE index @@ (Key(rw) :> <<rw.MileMarker>>)

\* one iteration of `for _, rw in roadwork.iterrows()`
IndexRoadwork(index, rw) ==
    IF IsNull(rw.Road) \/ IsNull(rw.County) THEN index
    ELSE IF Key(rw) \in DOMAIN index
    THEN [index EXCEPT ![Key(rw)] = Append(@, rw.MileMarker)]
    ELSE index @@ (Key(rw) :> <<rw.MileMarker>>)

\* (mutant) the anchor loop without its `break`
RECURSIVE ForAnchorsWithoutBreak(_, _)
ForAnchorsWithoutBreak(crash_mm, anchors) ==
    IF anchors = <<>> THEN [count |-> 0, broke |-> FALSE]
    ELSE LET rest == ForAnchorsWithoutBreak(crash_mm, Tail(anchors))
         IN  IF /\ ~IsNull(Head(anchors))
                /\ Abs(Val(crash_mm) - Val(Head(anchors))) <= WorkZoneTolerance
             THEN [count |-> 1 + rest.count, broke |-> FALSE]
             ELSE rest

\* `for rw in roadwork_by_location[key]`: what the loop body adds, and
\* whether the loop was left by `break`
RECURSIVE ForAnchors(_, _)
ForAnchors(crash_mm, anchors) ==
    IF anchors = <<>> THEN [count |-> 0, broke |-> FALSE]
    ELSE IF /\ ~IsNull(Head(anchors))
            /\ Abs(Val(crash_mm) - Val(Head(anchors))) <= WorkZoneTolerance
         THEN [count |-> 1, broke |-> TRUE]
         ELSE ForAnchors(crash_mm, Tail(anchors))

\* (mutant) a crash without a mile marker is not counted
CrashAddsWithoutFallback(index, crash) ==
    IF IsNull(crash.Road) \/ IsNull(crash.County) THEN 0
    ELSE IF Key(crash) \notin DOMAIN index THEN 0
    ELSE IF ~IsNull(crash.MileMarker)
         THEN LET loop == ForAnchors(crash.MileMarker, index[Key(crash)])
              IN  loop.count + (IF loop.broke THEN 0 ELSE 1)
         ELSE 0

\* one iteration of `for _, crash in crashes.iterrows()`: what it adds to
\* construction_crashes. The `else` of the for statement runs whenever the
\* loop ends without `break`.
CrashAdds(index, crash) ==
    IF IsNull(crash.Road) \/ IsNull(crash.County) THEN 0
    ELSE IF Key(crash) \notin DOMAIN index THEN 0
    ELSE IF ~IsNull(crash.MileMarker)
         THEN LET loop == ForAnchors(crash.MileMarker, index[Key(crash)])
              IN  loop.count + (IF loop.broke THEN 0 ELSE 1)
         ELSE 1

\* `if roadwork.empty or crashes.empty: return 0`
CorrReturnEmpty ==
    /\ cpc = "start"
    /\ roadwork = <<>> \/ crashes = <<>>
    /\ cpc' = "done"
    /\ UNCHANGED <<crashes, roadwork, ck, roadwork_by_location,
                   construction_crashes, added, storeVars, clusterVars, statVars>>

\* construction_crashes = 0; roadwork_by_location = {}
CorrBegin ==
    /\ cpc = "start"
    /\ roadwork # <<>> /\ crashes # <<>>
    /\ cpc' = "index"
    /\ ck' = 0
    /\ UNCHANGED <<crashes, roadwork, roadwork_by_location,
                   construction_crashes, added, storeVars, clusterVars, statVars>>

CorrIndexRow ==
    /\ cpc = "index"
    /\ ck < Len(roadwork)
    /\ roadwork_by_location' = IndexRoadwork(roadwork_by_location, roadwork[ck + 1])
    /\ ck' = ck + 1
    /\ UNCHANGED <<crashes, roadwork, cpc, construction_crashes, added, storeVars, clusterVars, statVars>>

CorrIndexDone ==
    /\ cpc = "index"
    /\ ck = Len(roadwork)
    /\ cpc' = "scan"
    /\ ck' = 0
    /\ UNCHANGED <<crashes, roadwork, roadwork_by_location,
                   construction_crashes, added, storeVars, clusterVars, statVars>>

CorrScanCrash ==
    /\ cpc = "scan"
    /\ ck < Len(crashes)
    /\ LET n == CrashAdds(roadwork_by_location, crashes[ck + 1])
       IN  /\ construction_crashes' = construction_crashes + n
           /\ added' = Append(added, n)
    /\ ck' = ck + 1
    /\ UNCHANGED <<crashes, roadwork, cpc, roadwork_by_location, storeVars,
                   clusterVars, statVars>>

\* return construction_crashes
CorrReturn ==
    /\ cpc = "scan"
    /\ ck = Len(crashes)
    /\ cpc' = "done"
    /\ UNCHANGED <<crashes, roadwork, ck, roadwork_by_location,
                   construction_crashes, added, storeVars, clusterVars, statVars>>

InitCorr ==
    /\ feed = {}
    /\ StoreEmpty
    /\ crashes \in SeqsUpTo(CrashRows, MaxCrashes)
    /\ roadwork \in SeqsUpTo(RoadworkRows, MaxRoadwork)
    /\ cpc = "start"
    /\ ck = 0
    /\ roadwork_by_location = <<>>
    /\ construction_crashes = 0
    /\ added = <<>>
    /\ ClusterOff
    /\ ScoreOff
    /\ ClearOff
    /\ acc = NoAccess
    /\ IngestOff
    /\ RunOff
    /\ TxnOff
    /\ RankOff
    /\ cluster_stats = <<>>

NextCorr ==
    \/ CorrReturnEmpty
    \/ CorrBegin
    \/ CorrIndexRow
    \/ CorrIndexDone
    \/ CorrScanCrash
    \/ CorrReturn

SpecCorr == InitCorr /\ [][NextCorr]_vars

----------------------------------------------------------------------------
(* app/calculations.py: find_crash_clusters *)

MaxPoints == 5      \* rows of the crashes DataFrame
GridPerMile == 4    \* latitude grid steps per mile

\* DEFAULT_CLUSTER_RADIUS_MILES = 0.5, in tenths of a mile
RadiusTenths == 5
MIN_CLUSTER_SIZE == 3
\* crashes_with_coords["cluster_id"] = -1
Unassigned == -1

Point(lat, lon) == [StartLatitude |-> lat, StartLongitude |-> lon]

\* crash rows on one meridian, 0, 0.5, 1 and 1.5 miles along it, and a row
\* that lacks a coordinate
PointRows ==
    {Point(Some(0), Some(0)),
     Point(Some(GridPerMile \div 2), Some(0)),
     Point(Some(GridPerMile), Some(0)),
     Point(Some(GridPerMile + GridPerMile \div 2), Some(0)),
     Point(None, Some(0))}

\* crashes.dropna(subset=["Start Latitude", "Start Longitude"])
RECURSIVE Dropna(_)
Dropna(rows) ==
    IF rows = <<>> THEN <<>>
    ELSE IF IsNull(Head(rows).StartLatitude) \/ IsNull(Head(rows).StartLongitude)
         THEN Dropna(Tail(rows))
         ELSE <<Head(rows)>> \o Dropna(Tail(rows))

\* haversine_distance, in grid steps: for two points of one meridian
\* (lon1 = lon2) the formula reduces to R * |lat2 - lat1|
haversine_distance(lat1, lon1, lat2, lon2) == Abs(lat2 - lat1)

\* `dist <= radius_miles`
WithinRadius(dist) == 10 * dist <= RadiusTenths * GridPerMile

\* (mutant) the distance is taken from the member absorbed last
LastMember(i, members) == members[Len(members)]

\* the index whose coordinates the inner loop compares with: coords[i]
CompareFrom(i, members) == i

Dist(a, b) ==
    haversine_distance(Val(coords[a].StartLatitude), Val(coords[a].StartLongitude),
                       Val(coords[b].StartLatitude), Val(coords[b].StartLongitude))

\* `if crashes_with_coords.empty: return pd.DataFrame()`
ClusterReturnEmpty ==
    /\ kpc = "start"
    /\ Dropna(points) = <<>>
    /\ kpc' = "done"
    /\ UNCHANGED <<points, coords, ki, kj, assigned, cluster_points, cluster_ids,
                   cluster_id, seeds, compared, storeVars, corrVars, statVars>>

\* cluster_id column set to -1, cluster_id = 0, assigned = set()
ClusterBegin ==
    /\ kpc = "start"
    /\ Dropna(points) # <<>>
    /\ coords' = Dropna(points)
    /\ cluster_ids' = [k \in 1..Len(Dropna(points)) |-> Unassigned]
    /\ cluster_id' = 0
    /\ assigned' = {}
    /\ ki' = 1
    /\ kpc' = "outer"
    /\ UNCHANGED <<points, kj, cluster_points, seeds, compared, storeVars, corrVars, statVars>>

\* `if i in assigned: continue`
ClusterSkip ==
    /\ kpc = "outer"
    /\ ki <= Len(coords)
    /\ ki \in assigned
    /\ ki' = ki + 1
    /\ UNCHANGED <<points, coords, kpc, kj, assigned, cluster_points, cluster_ids,
                   cluster_id, seeds, compared, storeVars, corrVars, statVars>>

\* cluster_points = [i]; assigned.add(i)
ClusterSeed ==
    /\ kpc = "outer"
    /\ ki <= Len(coords)
    /\ ki \notin assigned
    /\ cluster_points' = <<ki>>
    /\ assigned' = assigned \cup {ki}
    /\ seeds' = seeds \cup {ki}
    /\ kj' = ki + 1
    /\ kpc' = "inner"
    /\ UNCHANGED <<points, coords, ki, cluster_ids, cluster_id, compared,
                   storeVars, corrVars, statVars>>

\* (mutant) the inner loop without `if j in assigned: continue`: an incident
\* that is already assigned is compared, and absorbed, again
ClusterInnerRetake ==
    /\ kpc = "inner"
    /\ kj <= Len(coords)
    /\ kj \in assigned
    /\ compared' = compared \cup {<<ki, kj>>}
    /\ IF WithinRadius(Dist(ki, kj))
       THEN cluster_points' = Append(cluster_points, kj)
       ELSE UNCHANGED cluster_points
    /\ kj' = kj + 1
    /\ UNCHANGED <<points, coords, kpc, ki, assigned, cluster_ids, cluster_id,
                   seeds, storeVars, corrVars, statVars>>

\* `if j in assigned: continue`
ClusterInnerSkip ==
    /\ kpc = "inner"
    /\ kj <= Len(coords)
    /\ kj \in assigned
    /\ kj' = kj + 1
    /\ UNCHANGED <<points, coords, kpc, ki, assigned, cluster_points, cluster_ids,
                   cluster_id, seeds, compared, storeVars, corrVars, statVars>>

\* dist = haversine_distance(coords[i], coords[j]); absorb j when within
\* the radius
ClusterCompare ==
    /\ kpc = "inner"
    /\ kj <= Len(coords)
    /\ kj \notin assigned
    /\ LET from == CompareFrom(ki, cluster_points)
       IN  /\ compared' = compared \cup {<<from, kj>>}
           /\ IF WithinRadius(Dist(from, kj))
              THEN /\ cluster_points' = Append(cluster_points, kj)
                   /\ assigned' = assigned \cup {kj}
              ELSE UNCHANGED <<cluster_points, assigned>>
    /\ kj' = kj + 1
    /\ UNCHANGED <<points, coords, kpc, ki, cluster_ids, cluster_id, seeds,
                   storeVars, corrVars, statVars>>

\* `if len(cluster_points) >= MIN_CLUSTER_SIZE`: the members get cluster_id
ClusterCommit ==
    /\ kpc = "inner"
    /\ kj > Len(coords)
    /\ Len(cluster_points) >= MIN_CLUSTER_SIZE
    /\ cluster_ids' = [k \in DOMAIN cluster_ids |->
                          IF \E m \in DOMAIN cluster_points : cluster_points[m] = k
                          THEN cluster_id ELSE cluster_ids[k]]
    /\ cluster_id' = cluster_id + 1
    /\ ki' = ki + 1
    /\ kpc' = "outer"
    /\ UNCHANGED <<points, coords, kj, assigned, cluster_points, seeds, compared,
                   storeVars, corrVars, statVars>>

\* (mutant) the members of a group below MIN_CLUSTER_SIZE are released
ClusterDiscardReleasing ==
    /\ kpc = "inner"
    /\ kj > Len(coords)
    /\ Len(cluster_points) < MIN_CLUSTER_SIZE
    /\ assigned' = assigned \ {cluster_points[m] : m \in DOMAIN cluster_points}
    /\ ki' = ki + 1
    /\ kpc' = "outer"
    /\ UNCHANGED <<points, coords, kj, cluster_points, cluster_ids,
                   cluster_id, seeds, compared, storeVars, corrVars, statVars>>

\* a group below MIN_CLUSTER_SIZE: nothing is written, its members stay in
\* `assigned`
ClusterDiscard ==
    /\ kpc = "inner"
    /\ kj > Len(coords)
    /\ Len(cluster_points) < MIN_CLUSTER_SIZE
    /\ ki' = ki + 1
    /\ kpc' = "outer"
    /\ UNCHANGED <<points, coords, kj, assigned, cluster_points, cluster_ids,
                   cluster_id, seeds, compared, storeVars, corrVars, statVars>>

\* the outer loop ends
ClusterFinish ==
    /\ kpc = "outer"
    /\ ki > Len(coords)
    /\ kpc' = "done"
    /\ UNCHANGED <<points, coords, ki, kj, assigned, cluster_points, cluster_ids,
                   cluster_id, seeds, compared, storeVars, corrVars, statVars>>

InitCluster ==
    /\ feed = {}
    /\ StoreEmpty
    /\ CorrOff
    /\ points \in SeqsUpTo(PointRows, MaxPoints)
    /\ coords = <<>>
    /\ kpc = "start"
    /\ ki = 0
    /\ kj = 0
    /\ assigned = {}
    /\ cluster_points = <<>>
    /\ cluster_ids = <<>>
    /\ cluster_id = 0
    /\ seeds = {}
    /\ compared = {}
    /\ ScoreOff
    /\ ClearOff
    /\ acc = NoAccess
    /\ IngestOff
    /\ RunOff
    /\ TxnOff
    /\ RankOff
    /\ cluster_stats = <<>>

NextCluster ==
    \/ ClusterReturnEmpty
    \/ ClusterBegin
    \/ ClusterSkip
    \/ ClusterSeed
    \/ ClusterInnerSkip
    \/ ClusterCompare
    \/ ClusterCommit
    \/ ClusterDiscard
    \/ ClusterFinish

SpecCluster == InitCluster /\ [][NextCluster]_vars

----------------------------------------------------------------------------
(* app/calculations.py: calculate_danger_score *)

MaxSeries == 3      \* records of a group

\* SEVERITY_WEIGHTS = {"Major": 3, "Moderate": 2, "Minor": 1}, in the order
\* .items() yields
SEVERITY_WEIGHTS == <<<<"Major", 3>>, <<"Moderate", 2>>, <<"Minor", 1>>>>

\* a severity column: the weighted values, other text, the empty string
\* and a missing value
Severities ==
    {Some("Major"), Some("Moderate"), Some("Minor"), Some("Closed"),
     Some("major"), Some(""), None}

\* `(severity_series == severity).sum()`: a missing value equals nothing
CountEqual(series, severity) ==
    Cardinality({k \in DOMAIN series : series[k] = Some(severity)})

\* (mutant) the count is added without its weight
ScoreAddsUnweighted(series, item) == CountEqual(series, item[1])

\* what one iteration of `for severity, weight in ...items()` adds
ScoreAdds(series, item) == CountEqual(series, item[1]) * item[2]

\* score = 0
ScoreBegin ==
    /\ spc = "start"
    /\ score' = 0
    /\ sk' = 0
    /\ spc' = "loop"
    /\ UNCHANGED <<severity_series, clearVars, acc, storeVars, corrVars, clusterVars, moreVars>>

ScoreWeight ==
    /\ spc = "loop"
    /\ sk < Len(SEVERITY_WEIGHTS)
    /\ score' = score + ScoreAdds(severity_series, SEVERITY_WEIGHTS[sk + 1])
    /\ sk' = sk + 1
    /\ UNCHANGED <<severity_series, spc, clearVars, acc, storeVars, corrVars,
                   clusterVars, moreVars>>

\* return score
ScoreReturn ==
    /\ spc = "loop"
    /\ sk = Len(SEVERITY_WEIGHTS)
    /\ spc' = "done"
    /\ UNCHANGED <<severity_series, sk, score, clearVars, acc, storeVars, corrVars,
                   clusterVars, moreVars>>

InitScore ==
    /\ feed = {}
    /\ StoreEmpty
    /\ CorrOff
    /\ ClusterOff
    /\ ClearOff
    /\ acc = NoAccess
    /\ IngestOff
    /\ RunOff
    /\ TxnOff
    /\ RankOff
    /\ cluster_stats = <<>>
    /\ severity_series \in SeqsUpTo(Severities, MaxSeries)
    /\ spc = "start"
    /\ sk = 0
    /\ score = 0

NextScore ==
    \/ ScoreBegin
    \/ ScoreWeight
    \/ ScoreReturn

SpecScore == InitScore /\ [][NextScore]_vars

----------------------------------------------------------------------------
(* app/calculations.py: calculate_avg_clearance_minutes and                *)
(* calculate_avg_clearance_time. Timestamps are in seconds; a mean is the  *)
(* exact fraction num/den in minutes.                                      *)

MaxClear == 3       \* rows of the crashes DataFrame

MIN_CLEARANCE_MINUTES == 1
MAX_CLEARANCE_MINUTES == 1440

SecondsPerMinute == 60
ClearanceStart == 600   \* the start time of the modelled crashes, in seconds

\* a timestamp cell: a datetime, or text that pd.to_datetime cannot parse
Stamp(t) == Some([ok |-> TRUE, t |-> t])
BadStamp == Some([ok |-> FALSE, t |-> 0])

TimeRow(start, end) == [StartTime |-> start, EndTime |-> end]

\* the end of a crash that lasted `minutes` minutes and `seconds` seconds
EndAfter(minutes, seconds) ==
    Stamp(ClearanceStart + minutes * SecondsPerMinute + seconds)

\* crash rows: durations below, at and just above both bounds, missing
\* and unparsable timestamps
ClearanceRows ==
    {TimeRow(Stamp(ClearanceStart), e) :
        e \in {Stamp(ClearanceStart - 300), EndAfter(0, 0),
               EndAfter(MIN_CLEARANCE_MINUTES, 0), EndAfter(MIN_CLEARANCE_MINUTES, 1),
               EndAfter(5, 0), EndAfter(10, 0),
               EndAfter(MAX_CLEARANCE_MINUTES - 1, 59),
               EndAfter(MAX_CLEARANCE_MINUTES, 0),
               EndAfter(MAX_CLEARANCE_MINUTES + 60, 0),
               None, BadStamp}}
    \cup {TimeRow(None, EndAfter(5, 0)), TimeRow(BadStamp, EndAfter(5, 0))}

\* crashes.dropna(subset=["Start Time", "End Time"])
RECURSIVE DropnaTimes(_)
DropnaTimes(rows) ==
    IF rows = <<>> THEN <<>>
    ELSE IF IsNull(Head(rows).StartTime) \/ IsNull(Head(rows).EndTime)
         THEN DropnaTimes(Tail(rows))
         ELSE <<Head(rows)>> \o DropnaTimes(Tail(rows))

\* pd.to_datetime on both columns raises on text it cannot parse
ToDatetimeRaises(rows) ==
    \E k \in DOMAIN rows : ~Val(rows[k].StartTime).ok \/ ~Val(rows[k].EndTime).ok

\* (end_times - start_times).dt.total_seconds()
TotalSeconds(rows) ==
    [k \in DOMAIN rows |-> Val(rows[k].EndTime).t - Val(rows[k].StartTime).t]

\* (mutant) the bounds taken inclusively
WithinBoundsInclusive(secs) ==
    /\ secs >= MIN_CLEARANCE_MINUTES * SecondsPerMinute
    /\ secs <= MAX_CLEARANCE_MINUTES * SecondsPerMinute

\* (durations > MIN_CLEARANCE_MINUTES) & (durations < MAX_CLEARANCE_MINUTES),
\* with durations = seconds / 60
WithinBounds(secs) ==
    /\ secs > MIN_CLEARANCE_MINUTES * SecondsPerMinute
    /\ secs < MAX_CLEARANCE_MINUTES * SecondsPerMinute

RECURSIVE ValidDurations(_)
ValidDurations(secs) ==
    IF secs = <<>> THEN <<>>
    ELSE IF WithinBounds(Head(secs))
         THEN <<Head(secs)>> \o ValidDurations(Tail(secs))
         ELSE ValidDurations(Tail(secs))

RECURSIVE SumSeq(_)
SumSeq(s) == IF s = <<>> THEN 0 ELSE Head(s) + SumSeq(Tail(s))

\* valid_durations.mean(), in minutes
Mean(secs) == [num |-> SumSeq(secs), den |-> SecondsPerMinute * Len(secs)]

\* the rounding of the format specs .0f and .1f: to the nearest, ties to even
RoundHalfEven(num, den) ==
    LET q == num \div den
        r == num % den
    IN  IF 2 * r < den THEN q
        ELSE IF 2 * r > den THEN q + 1
        ELSE IF q % 2 = 0 THEN q ELSE q + 1

\* calculate_avg_clearance_time: "N/A", f"{avg:.0f} min" below an hour,
\* f"{avg / 60:.1f} hrs" from an hour on (value in tenths of an hour)
FormatClearance(avg) ==
    IF IsNull(avg) THEN [text |-> "N/A", value |-> 0]
    ELSE IF Val(avg).num < 60 * Val(avg).den
         THEN [text |-> "min", value |-> RoundHalfEven(Val(avg).num, Val(avg).den)]
         ELSE [text |-> "hrs",
               value |-> RoundHalfEven(10 * Val(avg).num, 60 * Val(avg).den)]

\* the rows of the argument; `crashes is None` is treated like an empty frame
ClearanceFrame ==
    IF IsNull(clearance_crashes) THEN <<>> ELSE Val(clearance_crashes)

\* the rows that reach the try block
CrashesWithTimes == DropnaTimes(ClearanceFrame)

ClearanceReturns(avg) ==
    /\ avg_minutes' = avg
    /\ shown' = FormatClearance(avg)
    /\ lpc' = "done"
    /\ UNCHANGED <<clearance_crashes, scoreVars, acc, storeVars, corrVars,
                   clusterVars, moreVars>>

\* `if crashes is None or crashes.empty: return None`
ClearReturnEmpty ==
    /\ lpc = "start"
    /\ ClearanceFrame = <<>>
    /\ ClearanceReturns(None)

\* `if crashes_with_times.empty: return None`
ClearReturnNoTimes ==
    /\ lpc = "start"
    /\ ClearanceFrame # <<>>
    /\ CrashesWithTimes = <<>>
    /\ ClearanceReturns(None)

\* `except Exception: return None`
ClearExcept ==
    /\ lpc = "start"
    /\ ClearanceFrame # <<>>
    /\ CrashesWithTimes # <<>>
    /\ ToDatetimeRaises(CrashesWithTimes)
    /\ ClearanceReturns(None)

\* (mutant) an empty selection averages to zero
ClearReturnZero ==
    /\ lpc = "start"
    /\ ClearanceFrame # <<>>
    /\ CrashesWithTimes # <<>>
    /\ ~ToDatetimeRaises(CrashesWithTimes)
    /\ ValidDurations(TotalSeconds(CrashesWithTimes)) = <<>>
    /\ ClearanceReturns(Some([num |-> 0, den |-> 1]))

\* `if valid_durations.empty: return None`
ClearReturnFiltered ==
    /\ lpc = "start"
    /\ ClearanceFrame # <<>>
    /\ CrashesWithTimes # <<>>
    /\ ~ToDatetimeRaises(CrashesWithTimes)
    /\ ValidDurations(TotalSeconds(CrashesWithTimes)) = <<>>
    /\ ClearanceReturns(None)

\* return valid_durations.mean()
ClearReturnMean ==
    /\ lpc = "start"
    /\ ClearanceFrame # <<>>
    /\ CrashesWithTimes # <<>>
    /\ ~ToDatetimeRaises(CrashesWithTimes)
    /\ ValidDurations(TotalSeconds(CrashesWithTimes)) # <<>>
    /\ ClearanceReturns(Some(Mean(ValidDurations(TotalSeconds(CrashesWithTimes)))))

InitClear ==
    /\ feed = {}
    /\ StoreEmpty
    /\ CorrOff
    /\ ClusterOff
    /\ ScoreOff
    /\ acc = NoAccess
    /\ IngestOff
    /\ RunOff
    /\ TxnOff
    /\ RankOff
    /\ cluster_stats = <<>>
    /\ clearance_crashes \in
          {None} \cup {Some(rows) : rows \in SeqsUpTo(ClearanceRows, MaxClear)}
    /\ lpc = "start"
    /\ avg_minutes = None
    /\ shown = [text |-> "off", value |-> 0]

NextClear ==
    \/ ClearReturnEmpty
    \/ ClearReturnNoTimes
    \/ ClearExcept
    \/ ClearReturnFiltered
    \/ ClearReturnMean

SpecClear == InitClear /\ [][NextClear]_vars

----------------------------------------------------------------------------
(* database.py: get_unique_values, get_date_range, get_event_count and     *)
(* get_last_update_time                                                    *)

\* events that differ in the county text, the empty string included
FeedText ==
    {[BaseEvent(i) EXCEPT !.county = c] :
        i \in Ids, c \in {Some("Autauga"), Some("Baldwin"), Some(""), None}}

\* column_map, for the columns the model carries
column_map == [County |-> "county", Category |-> "category", Severity |-> "severity"]

\* the TEXT values of the model in ascending BINARY collation
TextOrder == <<"", "Autauga", "Baldwin", "Crash", "Major", "Minor", "Roadwork">>

TextRank(v) == CHOOSE k \in DOMAIN TextOrder : TextOrder[k] = v

\* (mutant) the WHERE clause without its `!= ''` test
ListedWithEmpty(x) == ~IsNull(x)

\* WHERE {db_column} IS NOT NULL AND {db_column} != ''
Listed(x) == ~IsNull(x) /\ Val(x) # ""

\* SELECT DISTINCT ... ORDER BY {db_column}
DistinctOrdered(rows, db_column) ==
    LET values == {Val(r[db_column]) : r \in {x \in rows : Listed(x[db_column])}}
    IN  CHOOSE s \in [1..Cardinality(values) -> values] :
            \A i, j \in DOMAIN s : i < j => TextRank(s[i]) < TextRank(s[j])

\* MIN(start_time) and MAX(start_time): the least and the greatest TEXT
MinStartTime(rows) ==
    CHOOSE x \in {Val(r.start_time) : r \in rows} :
        \A r \in rows : TextGeq(Val(r.start_time), x)

MaxStartTime(rows) ==
    CHOOSE x \in {Val(r.start_time) : r \in rows} :
        \A r \in rows : TextGeq(x, Val(r.start_time))

Returns(a) ==
    /\ pc = "idle"
    /\ acc' = a
    /\ pc' = "accessed"
    /\ UNCHANGED <<feed, store, lastCall, latest, qf, df, scoreVars, clearVars,
                   corrVars, clusterVars, moreVars>>

\* get_unique_values(column)
GetUniqueValues ==
    \E column \in DOMAIN column_map :
        Returns([NoAccess EXCEPT
                    !.name = "get_unique_values",
                    !.column = column,
                    !.list = DistinctOrdered(store, column_map[column])])

\* get_date_range: datetime.fromisoformat of the two aggregates, and
\* datetime.now() in place of an aggregate that is NULL
GetDateRange ==
    IF store = {}
    THEN \E now1, now2 \in Ticks :
            /\ now1 <= now2
            /\ Returns([NoAccess EXCEPT !.name = "get_date_range",
                                        !.stamps = <<Some(now1), Some(now2)>>])
    ELSE Returns([NoAccess EXCEPT
                    !.name = "get_date_range",
                    !.stamps = <<Some(MinStartTime(store).t),
                                 Some(MaxStartTime(store).t)>>])

\* get_event_count: SELECT COUNT(*)
GetEventCount ==
    Returns([NoAccess EXCEPT !.name = "get_event_count",
                             !.count = Cardinality(store)])

\* get_last_update_time: MAX(created_at), None when the table is empty.
\* created_at is filled by SQLite's clock at insert time; the model keeps no
\* clock, so the value returned for a non-empty table is any timestamp.
GetLastUpdateTime ==
    IF store = {}
    THEN Returns([NoAccess EXCEPT !.name = "get_last_update_time",
                                  !.stamps = <<None>>])
    ELSE \E created_at \in Ticks :
            Returns([NoAccess EXCEPT !.name = "get_last_update_time",
                                     !.stamps = <<Some(created_at)>>])

\* the caller drops the value
Forget ==
    /\ pc = "accessed"
    /\ pc' = "idle"
    /\ acc' = NoAccess
    /\ UNCHANGED <<feed, store, lastCall, latest, qf, df, scoreVars, clearVars,
                   corrVars, clusterVars, moreVars>>

InitAccess ==
    /\ feed \in {FeedText, FeedMigrated, FeedCategory}
    /\ StoreEmpty
    /\ CorrOff
    /\ ClusterOff
    /\ ScoreOff
    /\ ClearOff
    /\ acc = NoAccess
    /\ IngestOff
    /\ RunOff
    /\ TxnOff
    /\ RankOff
    /\ cluster_stats = <<>>

NextAccess ==
    \/ UpsertCommit
    \/ GetUniqueValues
    \/ GetDateRange
    \/ GetEventCount
    \/ GetLastUpdateTime
    \/ Forget

SpecAccess == InitAccess /\ [][NextAccess]_vars

----------------------------------------------------------------------------
(* data/api.py: get_api_response and update_events *)

\* records per response body
MaxData == 1

\* config.py, in the order update_events visits them
EVENT_TYPES == <<"Roadwork", "Crash", "Incident", "RoadCondition">>

\* an ISO-8601 string of the API ("2024-01-01T08:00:00Z") for tick t, or a
\* string that datetime.fromisoformat rejects
IsoString(t) == [valid |-> TRUE, t |-> t]
BadString == [valid |-> FALSE, t |-> 0]

\* one object of the response body
RawEvent(id) ==
    [id             |-> id,
     type           |-> Some("Crash"),
     severity       |-> Some("Major Delay"),
     county         |-> Some("Autauga"),
     start          |-> Some(IsoString(0)),
     end            |-> Some(IsoString(1)),
     lastUpdatedAt  |-> Some(IsoString(1)),
     active         |-> Some(TRUE),
     latitude       |-> Some(1),
     longitude      |-> Some(1)]

\* the objects a body is drawn from: a complete one, and one with a
\* malformed, missing or zero field
RawFeeds ==
    {{RawEvent(1), [RawEvent(2) EXCEPT !.start = Some(BadString)]},
     {[RawEvent(1) EXCEPT !.end = Some(BadString)],
      [RawEvent(2) EXCEPT !.lastUpdatedAt = Some(BadString), !.end = None]},
     {RawEvent(1), [RawEvent(2) EXCEPT !.latitude = None, !.severity = None]},
     {RawEvent(1),
      [RawEvent(2) EXCEPT !.longitude = None, !.active = Some(FALSE)]},
     {RawEvent(1), [RawEvent(2) EXCEPT !.latitude = Some(0)]},
     {[RawEvent(1) EXCEPT !.severity = Some("Minor")],
      [RawEvent(2) EXCEPT !.longitude = Some(0)]}}

\* what session.get / raise_for_status / response.json() / the loop over
\* data can do: raise requests.RequestException, raise ValueError (the body
\* is not JSON), raise TypeError (the body is JSON null, which cannot be
\* iterated), or yield a list of objects
Outcomes(raw) ==
    {[status |-> s, data |-> <<>>] :
        s \in {"RequestException", "ValueError", "TypeError"}}
    \cup {[status |-> "ok", data |-> d] :
            d \in UNION {[1..n -> raw] : n \in 0..MaxData}}

\* parse_datetime: None for a missing or rejected string, else
\* strftime("%Y-%m-%d %H:%M:%S")
parse_datetime(dt_string) ==
    IF IsNull(dt_string) THEN None
    ELSE IF ~Val(dt_string).valid THEN None
    ELSE Some(ApiText(Val(dt_string).t))

\* `not lat`: None, 0 and 0.0 are all falsy
Not(x) == IF IsNull(x) THEN TRUE ELSE Val(x) = 0

\* (event.get("severity") or "").replace("Delay", "").strip()
StripDelay(severity) ==
    IF IsNull(severity) THEN Some("")
    ELSE Some(CASE Val(severity) = "Major Delay" -> "Major"
                []   Val(severity) = "Moderate Delay" -> "Moderate"
                []   Val(severity) = "Minor Delay" -> "Minor"
                []   OTHER -> Val(severity))

\* the dict appended for one object (lines 83-113)
EventDict(event) ==
    [event_id        |-> event.id,
     category        |-> event.type,
     severity        |-> StripDelay(event.severity),
     county          |-> event.county,
     start_time      |-> parse_datetime(event.start),
     end_time        |-> parse_datetime(event.end),
     last_updated    |-> parse_datetime(event.lastUpdatedAt),
     active          |-> IF IsNull(event.active) THEN Some(0)
                         ELSE IF Val(event.active) THEN Some(1) ELSE Some(0),
     start_latitude  |-> event.latitude,
     start_longitude |-> event.longitude]

\* `if not lat or not lon: continue`
Skipped(event) == Not(event.latitude) \/ Not(event.longitude)

\* the list get_api_response returns for a body that could be read
RECURSIVE EventsOf(_)
EventsOf(data) ==
    IF data = <<>> THEN <<>>
    ELSE IF Skipped(Head(data)) THEN EventsOf(Tail(data))
    ELSE <<EventDict(Head(data))>> \o EventsOf(Tail(data))

\* get_api_response caught RequestException or ValueError and returned []:
\* all_events.extend([]) and the loop goes on
FetchFails ==
    /\ ipc = "fetch"
    /\ ik < Len(EVENT_TYPES)
    /\ responses[ik + 1].status \in {"RequestException", "ValueError"}
    /\ ik' = ik + 1
    /\ UNCHANGED <<responses, ipc, all_events, runVars, txnVars, rankVars,
                   cluster_stats, scoreVars, clearVars, acc, storeVars,
                   corrVars, clusterVars>>

\* get_api_response returned the events of the body
FetchReturns ==
    /\ ipc = "fetch"
    /\ ik < Len(EVENT_TYPES)
    /\ responses[ik + 1].status = "ok"
    /\ all_events' = all_events \o EventsOf(responses[ik + 1].data)
    /\ ik' = ik + 1
    /\ UNCHANGED <<responses, ipc, runVars, txnVars, rankVars,
                   cluster_stats, scoreVars, clearVars, acc, storeVars,
                   corrVars, clusterVars>>

\* `for event in data` raised TypeError, which no except clause names: it
\* leaves get_api_response and update_events before upsert_events is reached
FetchAborts ==
    /\ ipc = "fetch"
    /\ ik < Len(EVENT_TYPES)
    /\ responses[ik + 1].status = "TypeError"
    /\ ipc' = "raised"
    /\ lastCall' = "TypeError"
    /\ UNCHANGED <<responses, ik, all_events, runVars, txnVars, rankVars,
                   cluster_stats, scoreVars, clearVars, acc, feed, store,
                   latest, pc, qf, df, corrVars, clusterVars>>

\* `if all_events:` is false: upsert_events is not called
UpdateNothing ==
    /\ ipc = "fetch"
    /\ ik = Len(EVENT_TYPES)
    /\ all_events = <<>>
    /\ ipc' = "done"
    /\ UNCHANGED <<responses, ik, all_events, runVars, txnVars, rankVars,
                   cluster_stats, scoreVars, clearVars, acc, storeVars,
                   corrVars, clusterVars>>

\* upsert_events(all_events), every row accepted
UpdateCommit ==
    /\ ipc = "fetch"
    /\ ik = Len(EVENT_TYPES)
    /\ all_events # <<>>
    /\ ExecuteMany(store, all_events).ok
    /\ store' = ExecuteMany(store, all_events).rows
    /\ lastCall' = IF Replaces(store, all_events) THEN "replaced" ELSE "inserted"
    /\ latest' = LatestAfter(latest, all_events)
    /\ ipc' = "done"
    /\ UNCHANGED <<responses, ik, all_events, runVars, txnVars, rankVars,
                   cluster_stats, scoreVars, clearVars, acc, feed, pc, qf, df,
                   corrVars, clusterVars>>

\* upsert_events(all_events), a row rejected: sqlite3.IntegrityError leaves
\* update_events, nothing of the refresh is committed
UpdateRaise ==
    /\ ipc = "fetch"
    /\ ik = Len(EVENT_TYPES)
    /\ all_events # <<>>
    /\ ~ExecuteMany(store, all_events).ok
    /\ lastCall' = "IntegrityError"
    /\ ipc' = "raised"
    /\ UNCHANGED <<responses, ik, all_events, runVars, txnVars, rankVars,
                   cluster_stats, scoreVars, clearVars, acc, feed, store,
                   latest, pc, qf, df, corrVars, clusterVars>>

\* update_events on an initialised, empty table: all_events = []
InitIngest ==
    /\ feed = {}
    /\ StoreEmpty
    /\ CorrOff
    /\ ClusterOff
    /\ ScoreOff
    /\ ClearOff
    /\ acc = NoAccess
    /\ \E raw \in RawFeeds : responses \in [DOMAIN EVENT_TYPES -> Outcomes(raw)]
    /\ ipc = "fetch"
    /\ ik = 0
    /\ all_events = <<>>
    /\ RunOff
    /\ TxnOff
    /\ RankOff
    /\ cluster_stats = <<>>

NextIngest ==
    \/ FetchFails
    \/ FetchReturns
    \/ FetchAborts
    \/ UpdateNothing
    \/ UpdateCommit
    \/ UpdateRaise

SpecIngest == InitIngest /\ [][NextIngest]_vars

----------------------------------------------------------------------------
(* app/main.py: run, the three queries of one script run *)

\* the selected period is the last day, the previous period the day before;
\* event 1 is a crash whose record is revised between refreshes, event 2 a
\* roadwork or a crash
FeedRun ==
    {[BaseEvent(1) EXCEPT !.start_time = Some(ApiText(FirstTick(d))),
                          !.county = Some(c)] :
        d \in {MaxDay - 1, MaxDay}, c \in {"Autauga", "Baldwin"}}
    \cup {[BaseEvent(2) EXCEPT !.start_time = Some(ApiText(LastTick(MaxDay))),
                               !.category = Some(k)] :
            k \in {"Roadwork", "Crash"}}

\* the arguments of the three query_events calls (lines 152-172)
RunFilters(which, county_filter) ==
    CASE which = "crashes" ->
            [NoFilters EXCEPT !.start_date = Some(FirstTick(MaxDay)),
                              !.end_date = Some(LastTick(MaxDay)),
                              !.counties = county_filter,
                              !.categories = Some({"Crash"})]
      [] which = "prev_crashes" ->
            [NoFilters EXCEPT !.start_date = Some(FirstTick(MaxDay - 1)),
                              !.end_date = Some(LastTick(MaxDay - 1)),
                              !.counties = county_filter,
                              !.categories = Some({"Crash"})]
      [] which = "roadwork" ->
            [NoFilters EXCEPT !.start_date = Some(FirstTick(MaxDay)),
                              !.end_date = Some(LastTick(MaxDay)),
                              !.categories = Some({"Roadwork"})]

\* crashes = query_events(...): a connection of its own, opened and closed
RunCrashes ==
    /\ rpc = "start"
    /\ \E county_filter \in {None, Some({"Autauga"})} :
        \E rows \in OrderByStartTimeDesc(
                        QueryRows(store, RunFilters("crashes", county_filter))) :
            frames' = [county_filter |-> county_filter, crashes |-> rows,
                       prev_crashes |-> <<>>, roadwork |-> <<>>]
    /\ rpc' = "crashes"
    /\ UNCHANGED <<ingestVars, txnVars, rankVars, cluster_stats, scoreVars,
                   clearVars, acc, storeVars, corrVars, clusterVars>>

\* prev_crashes = query_events(...): another connection
RunPrev ==
    /\ rpc = "crashes"
    /\ \E rows \in OrderByStartTimeDesc(
            QueryRows(store, RunFilters("prev_crashes", frames.county_filter))) :
        frames' = [frames EXCEPT !.prev_crashes = rows]
    /\ rpc' = "prev"
    /\ UNCHANGED <<ingestVars, txnVars, rankVars, cluster_stats, scoreVars,
                   clearVars, acc, storeVars, corrVars, clusterVars>>

\* roadwork = query_events(...): a third connection; then
\* `if crashes.empty: return`, else the tabs are rendered from the frames
RunRoadwork ==
    /\ rpc = "prev"
    /\ \E rows \in OrderByStartTimeDesc(
            QueryRows(store, RunFilters("roadwork", frames.county_filter))) :
        frames' = [frames EXCEPT !.roadwork = rows]
    /\ rpc' = IF frames.crashes = <<>> THEN "returned" ELSE "tabs"
    /\ UNCHANGED <<ingestVars, txnVars, rankVars, cluster_stats, scoreVars,
                   clearVars, acc, storeVars, corrVars, clusterVars>>

\* the script run ends; the next interaction starts another
RunEnd ==
    /\ rpc \in {"returned", "tabs"}
    /\ rpc' = "start"
    /\ frames' = <<>>
    /\ UNCHANGED <<ingestVars, txnVars, rankVars, cluster_stats, scoreVars,
                   clearVars, acc, storeVars, corrVars, clusterVars>>

\* check_and_update_db of another session (Streamlit runs each session's
\* script in a thread of its own) commits a batch to the same database file
SessionUpsert ==
    /\ \E events \in Batches(feed) :
        LET r == ExecuteMany(store, events)
        IN  /\ events # <<>>
            /\ r.ok
            /\ store' = r.rows
            /\ lastCall' = IF Replaces(store, events) THEN "replaced" ELSE "inserted"
            /\ latest' = LatestAfter(latest, events)
    /\ UNCHANGED <<rpc, frames, ingestVars, txnVars, rankVars, cluster_stats,
                   scoreVars, clearVars, acc, feed, pc, qf, df, corrVars,
                   clusterVars>>

InitRun ==
    /\ feed = FeedRun
    /\ StoreEmpty
    /\ CorrOff
    /\ ClusterOff
    /\ ScoreOff
    /\ ClearOff
    /\ acc = NoAccess
    /\ IngestOff
    /\ rpc = "start"
    /\ frames = <<>>
    /\ TxnOff
    /\ RankOff
    /\ cluster_stats = <<>>

NextRun ==
    \/ RunCrashes
    \/ RunPrev
    \/ RunRoadwork
    \/ RunEnd
    \/ SessionUpsert

SpecRun == InitRun /\ [][NextRun]_vars

----------------------------------------------------------------------------
(* database.py: upsert_events statement by statement, next to a reader *)

\* two versions of event 1, event 2, and a record of event 2 the table rejects
FeedTxn ==
    {BaseEvent(1), [BaseEvent(1) EXCEPT !.severity = Some("Minor")],
     [BaseEvent(2) EXCEPT !.start_time = Some(ApiText(1))],
     [BaseEvent(2) EXCEPT !.category = None]}

\* (mutant) the reader sees the rows of the transaction that is still open
VisibleUncommitted == IF tpc = "idle" THEN store ELSE working

\* get_connection gives every call a connection of its own: a SELECT on
\* another connection reads the committed table
Visible == store

\* executemany starts: the first INSERT opens the implicit transaction
TxnBegin ==
    /\ tpc = "idle"
    /\ \E events \in Batches(feed) :
        /\ events # <<>>
        /\ pending' = events
    /\ working' = store
    /\ tpc' = "open"
    /\ UNCHANGED <<everStored, reading, ingestVars, runVars, rankVars,
                   cluster_stats, scoreVars, clearVars, acc, storeVars,
                   corrVars, clusterVars>>

\* INSERT OR REPLACE finds a row with the same event_id and deletes it
TxnDelete ==
    /\ tpc = "open"
    /\ pending # <<>>
    /\ ~ViolatesNotNull(Head(pending))
    /\ \E r \in working : r.event_id = Head(pending).event_id
    /\ working' = {r \in working : r.event_id # Head(pending).event_id}
    /\ tpc' = "deleted"
    /\ UNCHANGED <<pending, everStored, reading, ingestVars, runVars, rankVars,
                   cluster_stats, scoreVars, clearVars, acc, storeVars,
                   corrVars, clusterVars>>

\* INSERT OR REPLACE inserts the new row; executemany moves to the next
TxnInsert ==
    /\ pending # <<>>
    /\ ~ViolatesNotNull(Head(pending))
    /\ IF tpc = "open"
       THEN \A r \in working : r.event_id # Head(pending).event_id
       ELSE tpc = "deleted"
    /\ working' = InsertOrReplace(working, Head(pending))
    /\ pending' = Tail(pending)
    /\ tpc' = "open"
    /\ UNCHANGED <<everStored, reading, ingestVars, runVars, rankVars,
                   cluster_stats, scoreVars, clearVars, acc, storeVars,
                   corrVars, clusterVars>>

\* conn.commit(): the rows of the transaction become the table
TxnCommit ==
    /\ tpc = "open"
    /\ pending = <<>>
    /\ store' = working
    /\ everStored' = everStored \cup {r.event_id : r \in working}
    /\ lastCall' = "committed"
    /\ working' = {}
    /\ tpc' = "idle"
    /\ UNCHANGED <<pending, reading, ingestVars, runVars, rankVars,
                   cluster_stats, scoreVars, clearVars, acc, feed, latest, pc,
                   qf, df, corrVars, clusterVars>>

\* a NOT NULL violation aborts the statement: sqlite3.IntegrityError leaves
\* the with-block before conn.commit(), conn.close() rolls the transaction back
TxnAbort ==
    /\ tpc = "open"
    /\ pending # <<>>
    /\ ViolatesNotNull(Head(pending))
    /\ lastCall' = "IntegrityError"
    /\ working' = {}
    /\ pending' = <<>>
    /\ tpc' = "idle"
    /\ UNCHANGED <<everStored, reading, ingestVars, runVars, rankVars,
                   cluster_stats, scoreVars, clearVars, acc, feed, store,
                   latest, pc, qf, df, corrVars, clusterVars>>

\* query_events() of a script run, at any point of the writer's transaction
TxnRead ==
    /\ pc = "idle"
    /\ qf' = NoFilters
    /\ df' \in OrderByStartTimeDesc(QueryRows(Visible, NoFilters))
    /\ reading' = [at |-> tpc, stored |-> {r.event_id : r \in store}]
    /\ pc' = "queried"
    /\ UNCHANGED <<tpc, working, pending, everStored, ingestVars, runVars,
                   rankVars, cluster_stats, scoreVars, clearVars, acc, feed,
                   store, lastCall, latest, corrVars, clusterVars>>

InitTxn ==
    /\ feed = FeedTxn
    /\ StoreEmpty
    /\ CorrOff
    /\ ClusterOff
    /\ ScoreOff
    /\ ClearOff
    /\ acc = NoAccess
    /\ IngestOff
    /\ RunOff
    /\ tpc = "idle"
    /\ working = {}
    /\ pending = <<>>
    /\ everStored = {}
    /\ reading = <<>>
    /\ RankOff
    /\ cluster_stats = <<>>

NextTxn ==
    \/ TxnBegin
    \/ TxnDelete
    \/ TxnInsert
    \/ TxnCommit
    \/ TxnAbort
    \/ TxnRead
    \/ Discard

SpecTxn == InitTxn /\ [][NextTxn]_vars

----------------------------------------------------------------------------
(* app/tabs/danger_rankings.py: _display_danger_table *)

\* crash rows per table, distinct group keys
MaxRank == 3
MaxGroup == 2

\* .head(15)
HeadRows == 15

\* a crash row: the group column (a road or county, written as the rank of
\* its name in ascending order; missing for NaN) and the severity
RankRows ==
    {[group |-> g, Severity |-> s] :
        g \in {None} \cup {Some(k) : k \in 1..MaxGroup},
        s \in {Some("Major"), Some("Moderate"), Some("Minor"), None}}

\* values config.py can give SEVERITY_WEIGHTS: the one it has, and a tuned one
ConfiguredWeights ==
    {SEVERITY_WEIGHTS, <<<<"Major", 5>>, <<"Moderate", 2>>, <<"Minor", 1>>>>}

\* the Severity column of one group, in row order
RECURSIVE GroupSeverities(_, _)
GroupSeverities(rows, g) ==
    IF rows = <<>> THEN <<>>
    ELSE (IF Head(rows).group = Some(g) THEN <<Head(rows).Severity>> ELSE <<>>)
         \o GroupSeverities(Tail(rows), g)

\* one row of groupby(group_col).agg(...) with the Score column added: the
\* weights 3, 2 and 1 are written in the expression
StatsRow(rows, g) ==
    LET x == GroupSeverities(rows, g)
    IN  [key      |-> g,
         Total    |-> Len(x),
         Major    |-> CountEqual(x, "Major"),
         Moderate |-> CountEqual(x, "Moderate"),
         Minor    |-> CountEqual(x, "Minor"),
         Score    |-> CountEqual(x, "Major") * 3 + CountEqual(x, "Moderate") * 2
                      + CountEqual(x, "Minor") * 1]

\* groupby: one row per key that occurs, keys ascending, NaN keys dropped
RECURSIVE GroupStats(_, _)
GroupStats(rows, g) ==
    IF g > MaxGroup THEN <<>>
    ELSE (IF \E k \in DOMAIN rows : rows[k].group = Some(g)
          THEN <<StatsRow(rows, g)>> ELSE <<>>)
         \o GroupStats(rows, g + 1)

\* (mutant) sort_values(by) with ascending left at its default, True
SortValuesAscending(frame, by) ==
    {s \in [DOMAIN frame -> Range(frame)] :
        /\ \A i, j \in DOMAIN s : i # j => s[i] # s[j]
        /\ \A i, j \in DOMAIN s : i < j => s[i][by] <= s[j][by]}

\* sort_values(by, ascending=False) with the default kind="quicksort", which
\* is not a stable sort: rows with equal values come in any order
SortValues(frame, by) ==
    {s \in [DOMAIN frame -> Range(frame)] :
        /\ \A i, j \in DOMAIN s : i # j => s[i] # s[j]
        /\ \A i, j \in DOMAIN s : i < j => s[i][by] >= s[j][by]}

Head15(frame) ==
    SubSeq(frame, 1, IF Len(frame) < HeadRows THEN Len(frame) ELSE HeadRows)

\* the whole of _display_danger_table up to the rendered frame
DisplayDangerTable ==
    /\ gpc = "start"
    /\ \E sorted \in SortValues(GroupStats(rank_rows, 1), "Score") :
        stats' = Head15(sorted)
    /\ gpc' = "done"
    /\ UNCHANGED <<rank_rows, configured, ingestVars, runVars, txnVars,
                   cluster_stats, scoreVars, clearVars, acc, storeVars,
                   corrVars, clusterVars>>

\* run() reaches the tab with a non-empty crashes frame
InitRank ==
    /\ feed = {}
    /\ StoreEmpty
    /\ CorrOff
    /\ ClusterOff
    /\ ScoreOff
    /\ ClearOff
    /\ acc = NoAccess
    /\ IngestOff
    /\ RunOff
    /\ TxnOff
    /\ rank_rows \in SeqsUpTo(RankRows, MaxRank) \ {<<>>}
    /\ configured \in ConfiguredWeights
    /\ gpc = "start"
    /\ stats = <<>>
    /\ cluster_stats = <<>>

NextRank == DisplayDangerTable

SpecRank == InitRank /\ [][NextRank]_vars

----------------------------------------------------------------------------
(* app/calculations.py: find_crash_clusters, the summary of the clusters *)

MaxHot == 7         \* crash rows at the two sites
MaxDescribed == 3   \* crash rows whose descriptors vary

\* a crash row with its descriptors
HotRow(lat, location, road, county) ==
    [StartLatitude |-> Some(lat), StartLongitude |-> Some(0),
     Location |-> location, Road |-> road, County |-> county]

\* crashes at two sites three miles apart
SiteRows ==
    {HotRow(0, Some("MM 1"), Some("I-65"), Some("Autauga")),
     HotRow(3 * GridPerMile, Some("MM 9"), Some("US-31"), Some("Baldwin"))}

\* crashes at one site that differ in their descriptors, some of them missing
DescribedRows ==
    {HotRow(0, l, r, Some("Autauga")) :
        l \in {None, Some("MM 1")}, r \in {None, Some("I-65"), Some("US-31")}}
    \cup {HotRow(0, None, None, None)}

\* the rows of `clustered` with cluster_id c, in frame order
GroupRows(c) ==
    LET ks == {k \in DOMAIN cluster_ids : cluster_ids[k] = c}
        RECURSIVE From(_)
        From(k) == IF k > Len(coords) THEN <<>>
                   ELSE (IF k \in ks THEN <<coords[k]>> ELSE <<>>) \o From(k + 1)
    IN  From(1)

\* the aggregation "first": the first value of the column that is not
\* missing, each column on its own
First(rows, column) ==
    LET ks == {k \in DOMAIN rows : ~IsNull(rows[k][column])}
    IN  IF ks = {} THEN None
        ELSE rows[CHOOSE k \in ks : \A j \in ks : k <= j][column]

\* one row of groupby("cluster_id").agg(...): "count" of Event ID (the
\* primary key, never missing), "mean" of the coordinates as a fraction
AggRow(c) ==
    LET rows == GroupRows(c)
    IN  [cluster_id |-> c,
         Crashes    |-> Len(rows),
         Lat        |-> [num |-> SumSeq([k \in DOMAIN rows |->
                                            Val(rows[k].StartLatitude)]),
                         den |-> Len(rows)],
         Lon        |-> [num |-> SumSeq([k \in DOMAIN rows |->
                                            Val(rows[k].StartLongitude)]),
                         den |-> Len(rows)],
         Location   |-> First(rows, "Location"),
         Road       |-> First(rows, "Road"),
         County     |-> First(rows, "County")]

\* groupby sorts the keys: one row per cluster id, ascending
ClusterAgg == [c \in 1..cluster_id |-> AggRow(c - 1)]

\* `if clustered.empty: return pd.DataFrame()`
HotSpotsEmpty ==
    /\ kpc = "done"
    /\ coords # <<>>
    /\ \A k \in DOMAIN cluster_ids : cluster_ids[k] = Unassigned
    /\ cluster_stats' = <<>>
    /\ kpc' = "returned"
    /\ UNCHANGED <<points, coords, ki, kj, assigned, cluster_points, cluster_ids,
                   cluster_id, seeds, compared, storeVars, corrVars, scoreVars,
                   clearVars, acc, ingestVars, runVars, txnVars, rankVars>>

\* return cluster_stats.sort_values("Crashes", ascending=False)
HotSpotsReturn ==
    /\ kpc = "done"
    /\ \E k \in DOMAIN cluster_ids : cluster_ids[k] # Unassigned
    /\ cluster_stats' \in SortValues(ClusterAgg, "Crashes")
    /\ kpc' = "returned"
    /\ UNCHANGED <<points, coords, ki, kj, assigned, cluster_points, cluster_ids,
                   cluster_id, seeds, compared, storeVars, corrVars, scoreVars,
                   clearVars, acc, ingestVars, runVars, txnVars, rankVars>>

InitHotSpots ==
    /\ feed = {}
    /\ StoreEmpty
    /\ CorrOff
    /\ points \in SeqsUpTo(SiteRows, MaxHot) \cup SeqsUpTo(DescribedRows, MaxDescribed)
    /\ coords = <<>>
    /\ kpc = "start"
    /\ ki = 0
    /\ kj = 0
    /\ assigned = {}
    /\ cluster_points = <<>>
    /\ cluster_ids = <<>>
    /\ cluster_id = 0
    /\ seeds = {}
    /\ compared = {}
    /\ ScoreOff
    /\ ClearOff
    /\ acc = NoAccess
    /\ IngestOff
    /\ RunOff
    /\ TxnOff
    /\ RankOff
    /\ cluster_stats = <<>>

NextHotSpots ==
    \/ NextCluster
    \/ HotSpotsEmpty
    \/ HotSpotsReturn

SpecHotSpots == InitHotSpots /\ [][NextHotSpots]_vars

----------------------------------------------------------------------------
(* Claims about the store *)

\* the identities that a completed upsert_events call has stored
Upserted == {i \in Ids : ~IsNull(latest[i])}

\* a list argument is a restriction when it is given, non-empty and free
\* of the sentinel "All"
Supplied(lst) == lst # None /\ lst # Some({}) /\ ~("All" \in Val(lst))

\* what the filters of a call ask of a record, one conjunct per filter
Matches(r, f) ==
    /\ r.start_latitude # None
    /\ r.start_longitude # None
    /\ f.start_date # None =>
          r.start_time # None /\ Date(Val(r.start_time).t) >= Date(Val(f.start_date))
    /\ f.end_date # None =>
          r.start_time # None /\ Date(Val(r.start_time).t) <= Date(Val(f.end_date))
    /\ Supplied(f.counties) => r.county # None /\ Val(r.county) \in Val(f.counties)
    /\ Supplied(f.categories) =>
          r.category # None /\ Val(r.category) \in Val(f.categories)
    /\ Supplied(f.severities) =>
          r.severity # None /\ Val(r.severity) \in Val(f.severities)
    /\ f.active_only => r.active = Some(1)

\* C1: the store holds exactly one row per identity that an upsert has
\* stored: no two rows share an identity, and the record count equals the
\* number of distinct identities upserted, so an upsert of a stored identity
\* (or of one identity several times in a batch) leaves the count unchanged.
\* A call that raises stores nothing and upserts none of its identities.
C1_OneRowPerIdentity ==
    /\ \A r1, r2 \in store : r1.event_id = r2.event_id => r1 = r2
    /\ {r.event_id : r \in store} = Upserted
    /\ Cardinality(store) = Cardinality(Upserted)

C1_Witness ==
    /\ lastCall = "replaced"
    /\ Cardinality(store) = MaxId

\* C2: a query whose filters match the latest upserted version of an
\* identity returns exactly one record of that identity, equal to that
\* version in every column, null columns included.
C2_LastWriteWins ==
    pc = "queried" =>
        \A i \in Upserted :
            LET v == Val(latest[i])
                ks == {k \in DOMAIN df : df[k].event_id = i}
            IN  Matches(v, qf) =>
                    /\ Cardinality(ks) = 1
                    /\ \A k \in ks : df[k] = v

C2_Witness ==
    /\ pc = "queried"
    /\ lastCall = "replaced"
    /\ \E k \in DOMAIN df :
        /\ df[k].severity = None
        /\ latest[df[k].event_id] = Some(df[k])

\* C3: query returns exactly the stored records that have start
\* coordinates and satisfy every supplied filter, each once.
C3_FiltersConjunctive ==
    pc = "queried" =>
        /\ Range(df) = {r \in store : Matches(r, qf)}
        /\ Len(df) = Cardinality(Range(df))

C3_Witness ==
    /\ pc = "queried"
    /\ Supplied(qf.counties)
    /\ Supplied(qf.severities)
    /\ Len(df) = 1
    /\ Cardinality(store) = MaxId

\* C4: for the county, category and severity arguments, an empty list,
\* None and a list holding "All" give the result of the call that omits
\* the argument, whatever the other arguments are.
Unrestricting(lst) == lst = None \/ lst = Some({}) \/ "All" \in Val(lst)

C4_SentinelEquivalence ==
    pc = "queried" =>
        /\ Unrestricting(qf.counties) =>
              Range(df) = QueryRows(store, [qf EXCEPT !.counties = None])
        /\ Unrestricting(qf.categories) =>
              Range(df) = QueryRows(store, [qf EXCEPT !.categories = None])
        /\ Unrestricting(qf.severities) =>
              Range(df) = QueryRows(store, [qf EXCEPT !.severities = None])

C4_Witness ==
    /\ pc = "queried"
    /\ qf.counties = Some({"All"})
    /\ Supplied(qf.severities)
    /\ df # <<>>
    /\ \E r \in store : r \notin Range(df)

\* C5: every record a query returns has a start latitude and a start
\* longitude, and the WHERE clause of the call rejects every event that
\* lacks one of them.
C5_ResultsHaveCoordinates ==
    pc = "queried" =>
        /\ \A k \in DOMAIN df :
              df[k].start_latitude # None /\ df[k].start_longitude # None
        /\ \A e \in feed :
              (e.start_latitude = None \/ e.start_longitude = None) =>
                  QueryRows({e}, qf) = {}

C5_Witness ==
    /\ pc = "queried"
    /\ lastCall = "IntegrityError"
    /\ df # <<>>
    /\ \E e \in feed : e.start_latitude = None

----------------------------------------------------------------------------
(* Claims about the work-zone correlation *)

\* a row that has both a road and a county
Complete(row) == row.Road # None /\ row.County # None

\* the roadwork rows that share the (road, county) key of a crash
AnchorsOf(crash) ==
    {k \in DOMAIN roadwork :
        Complete(roadwork[k]) /\ Key(roadwork[k]) = Key(crash)}

\* roadwork row k carries a marker within 2 miles of the crash's marker
Near(crash, k) ==
    /\ crash.MileMarker # None
    /\ roadwork[k].MileMarker # None
    /\ Abs(Val(crash.MileMarker) - Val(roadwork[k].MileMarker)) <= 2

\* C6: a crash with a mile marker, whose key has anchors that carry
\* markers, none of them within 2 miles of the crash's marker, is not
\* counted.
C6_FarCrashNotCounted ==
    cpc = "done" =>
        \A i \in DOMAIN added :
            LET c == crashes[i]
            IN  (/\ Complete(c)
                 /\ c.MileMarker # None
                 /\ \E k \in AnchorsOf(c) : roadwork[k].MileMarker # None
                 /\ \A k \in AnchorsOf(c) : ~Near(c, k))
                => added[i] = 0

\* C7: a crash with a mile marker that shares its key with an anchor whose
\* marker is within 2 miles adds exactly 1, however many anchors qualify.
C7_NearCrashCountedOnce ==
    cpc = "done" =>
        \A i \in DOMAIN added :
            LET c == crashes[i]
            IN  (Complete(c) /\ \E k \in AnchorsOf(c) : Near(c, k))
                => added[i] = 1

C7_Witness ==
    /\ cpc = "done"
    /\ \E i \in DOMAIN added :
        /\ Cardinality({k \in AnchorsOf(crashes[i]) : Near(crashes[i], k)}) >= 2
        /\ added[i] = 1
        /\ construction_crashes = 1

\* C8: a crash whose key has roadwork is counted when it has no mile
\* marker, and whatever its marker when no anchor of the key has one.
C8_FallbackCounts ==
    cpc = "done" =>
        \A i \in DOMAIN added :
            LET c == crashes[i]
            IN  (/\ Complete(c)
                 /\ AnchorsOf(c) # {}
                 /\ \/ c.MileMarker = None
                    \/ \A k \in AnchorsOf(c) : roadwork[k].MileMarker = None)
                => added[i] = 1

C8_Witness ==
    /\ cpc = "done"
    /\ \A k \in DOMAIN roadwork : roadwork[k].MileMarker = None
    /\ \E i, j \in DOMAIN added :
        /\ crashes[i].MileMarker = None
        /\ crashes[j].MileMarker # None
        /\ added[i] = 1
        /\ added[j] = 1

\* C9: a crash lacking road or county, or sharing its key with no roadwork,
\* adds nothing; roadwork lacking road or county adds no anchor; the result
\* is 0 when an argument is empty and never exceeds the number of crashes
\* that have both road and county.
C9_OnlyKeyedCrashesCount ==
    cpc = "done" =>
        /\ \A i \in DOMAIN added :
              (~Complete(crashes[i]) \/ AnchorsOf(crashes[i]) = {}) => added[i] = 0
        /\ \A key \in DOMAIN roadwork_by_location :
              /\ key[1] # None
              /\ key[2] # None
              /\ Len(roadwork_by_location[key]) =
                    Cardinality({k \in DOMAIN roadwork :
                        Complete(roadwork[k]) /\ Key(roadwork[k]) = key})
        /\ (crashes = <<>> \/ roadwork = <<>>) => construction_crashes = 0
        /\ construction_crashes <=
              Cardinality({i \in DOMAIN crashes : Complete(crashes[i])})

C9_Witness ==
    /\ cpc = "done"
    /\ construction_crashes = 1
    /\ \E i \in DOMAIN crashes :
        ~Complete(crashes[i]) \/ AnchorsOf(crashes[i]) = {}
    /\ \E k \in DOMAIN roadwork : ~Complete(roadwork[k])

----------------------------------------------------------------------------
(* Claims about the clustering *)

\* the members of the cluster with id c, and its seed: the first member in
\* input order
MembersOf(c) == {k \in DOMAIN cluster_ids : cluster_ids[k] = c}
SeedOf(c) == CHOOSE k \in MembersOf(c) : \A m \in MembersOf(c) : k <= m

\* latitude b lies within half a mile of latitude a
WithinHalfMile(a, b) ==
    2 * Abs(Val(coords[a].StartLatitude) - Val(coords[b].StartLatitude))
        <= GridPerMile

\* C10, as claimed: every member of a cluster lies within the radius of
\* the cluster's seed; an incident farther than the radius from every seed
\* it was compared with (and it was compared with one) is in no cluster;
\* distances are computed from seeds only.
C10_FarIncidentInNoCluster ==
    /\ \A k \in DOMAIN cluster_ids :
          cluster_ids[k] # Unassigned =>
              WithinHalfMile(SeedOf(cluster_ids[k]), k)
    /\ \A k \in DOMAIN cluster_ids :
          (/\ \E p \in compared : p[2] = k
           /\ \A p \in compared : p[2] = k => ~WithinHalfMile(p[1], k)) =>
              cluster_ids[k] = Unassigned
    /\ \A p \in compared : p[1] \in seeds

\* C10, amended: every member of a cluster lies within the radius of the
\* cluster's seed, the first member in input order; an incident farther
\* than the radius from every seed it was compared with is absorbed by no
\* group, so it is in a cluster only as the seed of its own; distances are
\* computed from seeds only, never from an absorbed member.
C10_MembersWithinRadiusOfSeed ==
    /\ \A k \in DOMAIN cluster_ids :
          cluster_ids[k] # Unassigned =>
              /\ SeedOf(cluster_ids[k]) \in seeds
              /\ WithinHalfMile(SeedOf(cluster_ids[k]), k)
    /\ \A k \in DOMAIN cluster_ids :
          (\A p \in compared : p[2] = k => ~WithinHalfMile(p[1], k)) =>
              /\ k \notin assigned \ seeds
              /\ cluster_ids[k] # Unassigned => SeedOf(cluster_ids[k]) = k
    /\ \A p \in compared : p[1] \in seeds /\ p[1] < p[2]

\* a committed cluster with two members farther apart than the radius, and
\* an incident left out because it is too far from the seed
C10_Witness ==
    /\ kpc = "done"
    /\ \E k, m \in DOMAIN cluster_ids :
        /\ cluster_ids[k] # Unassigned
        /\ cluster_ids[k] = cluster_ids[m]
        /\ ~WithinHalfMile(k, m)
    /\ \E p \in compared :
        /\ ~WithinHalfMile(p[1], p[2])
        /\ cluster_ids[p[1]] # Unassigned
        /\ cluster_ids[p[2]] = Unassigned

\* the group that seed s gathered: the seed and the incidents found within
\* half a mile of it when they were compared with it
GroupOf(s) ==
    {s} \cup {p[2] : p \in {q \in compared : q[1] = s /\ WithinHalfMile(s, q[2])}}

\* the scan of seed s has ended
Closed(s) == s \in seeds /\ (kpc = "inner" => s < ki)

\* C11: every cluster id written has at least 3 members; the members of a
\* group that ended its scan with fewer than 3 keep cluster_id -1, none of
\* them opens a group afterwards and none is compared with, or absorbed
\* by, a later seed, whatever its distance from that seed.
C11_SmallGroupsStayUnclustered ==
    /\ \A k \in DOMAIN cluster_ids :
          cluster_ids[k] # Unassigned =>
              /\ cluster_ids[k] \in 0..(cluster_id - 1)
              /\ Cardinality(MembersOf(cluster_ids[k])) >= 3
    /\ \A s \in seeds :
          (Closed(s) /\ Cardinality(GroupOf(s)) < 3) =>
              \A k \in GroupOf(s) :
                  /\ cluster_ids[k] = Unassigned
                  /\ k # s => k \notin seeds
                  /\ \A p \in compared : p[2] = k => p[1] <= s

\* a discarded pair whose second member lies within half a mile of a later
\* seed that went on to form a cluster without it
C11_Witness ==
    /\ kpc = "done"
    /\ \E s, t \in seeds :
        /\ s < t
        /\ Cardinality(GroupOf(s)) = 2
        /\ cluster_ids[t] # Unassigned
        /\ \E k \in GroupOf(s) :
            /\ k # s
            /\ WithinHalfMile(t, k)
            /\ cluster_ids[k] = Unassigned

----------------------------------------------------------------------------
(* Claims about the danger score *)

\* what one record is worth
Points(sev) ==
    IF sev = Some("Major") THEN 3
    ELSE IF sev = Some("Moderate") THEN 2
    ELSE IF sev = Some("Minor") THEN 1
    ELSE 0

RECURSIVE SumPoints(_)
SumPoints(series) ==
    IF series = <<>> THEN 0 ELSE Points(Head(series)) + SumPoints(Tail(series))

NumberOf(series, sev) == Cardinality({k \in DOMAIN series : series[k] = sev})

\* C12: the score returned for a group is 3 times its Major records plus 2
\* times its Moderate records plus its Minor records; every other record
\* (other text, the empty string, a missing value) adds zero, and the score
\* of an empty group is 0.
C12_DangerScore ==
    spc = "done" =>
        /\ score = 3 * NumberOf(severity_series, Some("Major"))
                   + 2 * NumberOf(severity_series, Some("Moderate"))
                   + NumberOf(severity_series, Some("Minor"))
        /\ score = SumPoints(severity_series)
        /\ severity_series = <<>> => score = 0

C12_Witness ==
    /\ spc = "done"
    /\ severity_series = <<Some("Major"), Some("Closed"), Some("Moderate")>>
    /\ score = 5

----------------------------------------------------------------------------
(* Claims about the clearance estimator *)

\* the rows handed to the estimator (none when the argument is absent)
ClearanceInput == IF clearance_crashes = None THEN <<>> ELSE Val(clearance_crashes)

\* the incidents that have both timestamps
HasBoth == {k \in DOMAIN ClearanceInput :
               ClearanceInput[k].StartTime # None /\ ClearanceInput[k].EndTime # None}

\* some incident with both timestamps holds one that does not parse
Unparsable ==
    \E k \in HasBoth : ~Val(ClearanceInput[k].StartTime).ok
                       \/ ~Val(ClearanceInput[k].EndTime).ok

\* end minus start of incident k, in seconds
DurationSeconds(k) ==
    Val(ClearanceInput[k].EndTime).t - Val(ClearanceInput[k].StartTime).t

\* the incidents whose duration is strictly between 1 and 1440 minutes
Surviving == {k \in HasBoth : 60 < DurationSeconds(k) /\ DurationSeconds(k) < 86400}

RECURSIVE SumDurations(_)
SumDurations(ks) ==
    IF ks = {} THEN 0
    ELSE LET k == CHOOSE x \in ks : TRUE
         IN  DurationSeconds(k) + SumDurations(ks \ {k})

C14_UnavailableNotZero ==
    lpc = "done" =>
        /\ (\/ clearance_crashes = None
            \/ ClearanceInput = <<>>
            \/ HasBoth = {}
            \/ Unparsable
            \/ Surviving = {})
           => avg_minutes = None /\ shown.text = "N/A"
        /\ avg_minutes # None => Val(avg_minutes).num > 0 /\ shown.text # "N/A"

\* every incident has both timestamps, all parse, and the durations,
\* among them exactly 1 minute and exactly 1440 minutes, are all discarded
C14_Witness ==
    /\ lpc = "done"
    /\ HasBoth = DOMAIN ClearanceInput
    /\ ~Unparsable
    /\ \E k, m \in HasBoth : DurationSeconds(k) = 60 /\ DurationSeconds(m) = 86400
    /\ avg_minutes = None
    /\ shown.text = "N/A"

----------------------------------------------------------------------------
(* Claims about rejected records *)

\* the step is an upsert_events call that raised
RaiseStep == lastCall # "IntegrityError" /\ lastCall' = "IntegrityError"

\* a batch whose records all have a category and a start time
OnlyGeometryMissing(events) ==
    \A k \in DOMAIN events :
        events[k].category # None /\ events[k].start_time # None

\* C15: upsert_events never fails because of the content of a record: a
\* call whose records lack nothing but a start latitude or a start
\* longitude does not raise.
C15_UpsertNeverRaises ==
    [][\A events \in Batches(feed) :
          (events # <<>> /\ OnlyGeometryMissing(events)
           /\ ~ExecuteMany(store, events).ok) => ~RaiseStep]_vars

\* C16: one record that cannot be stored never aborts its batch: after a
\* call in which a record was rejected, every well-formed record of the
\* batch has a row in the store that comes from the batch.
C16_BatchSurvivesBadRecord ==
    [][\A events \in Batches(feed) :
          (events # <<>> /\ ~ExecuteMany(store, events).ok /\ RaiseStep) =>
              \A k \in DOMAIN events :
                  ~ViolatesNotNull(events[k]) =>
                      \E r \in store' :
                          r.event_id = events[k].event_id /\ r \in Range(events)]_vars

----------------------------------------------------------------------------
(* Claims about the date filter and the order of a result *)

\* the calendar day that holds timestamp t
DayOf(t) == CHOOSE d \in 0..t : FirstTick(d) <= t /\ t <= LastTick(d)

\* the filters of a call other than the date range
OtherFilters(f) == [f EXCEPT !.start_date = None, !.end_date = None]

\* C17: among the stored records that pass the other filters, a query
\* returns exactly those whose start day is on or after the day of the
\* start date and on or before the day of the end date; the time of day of
\* the record and of the bounds plays no part.
C17_DateRangeByCalendarDay ==
    pc = "queried" =>
        \A r \in store :
            Matches(r, OtherFilters(qf)) =>
                (r \in Range(df) <=>
                    /\ qf.start_date # None =>
                          DayOf(Val(r.start_time).t) >= DayOf(Val(qf.start_date))
                    /\ qf.end_date # None =>
                          DayOf(Val(r.start_time).t) <= DayOf(Val(qf.end_date)))

\* the start bound is late in its day, the end bound early in the same day,
\* and the records at both ends of that day are returned, the other day's
\* record is not
C17_Witness ==
    /\ pc = "queried"
    /\ qf.start_date = Some(LastTick(0))
    /\ qf.end_date = Some(FirstTick(0))
    /\ \E k, m \in DOMAIN df :
        /\ Val(df[k].start_time).t = FirstTick(0)
        /\ Val(df[m].start_time).t = LastTick(0)

\* C18: the records of a result are in descending order of start time:
\* of two adjacent records the earlier one's start time is at or after the
\* later one's.
C18_SortedByStartTimeDesc ==
    pc = "queried" =>
        \A k \in DOMAIN df :
            k + 1 \in DOMAIN df =>
                Val(df[k].start_time).t >= Val(df[k + 1].start_time).t

----------------------------------------------------------------------------
(* Claims about the accessors *)

\* C19: get_unique_values returns exactly the values of the field that
\* occur in some stored record and are neither null nor the empty string,
\* each once, in ascending order.
C19_DistinctSortedNonEmpty ==
    (pc = "accessed" /\ acc.name = "get_unique_values") =>
        LET field == column_map[acc.column]
        IN  /\ Range(acc.list) =
                  {v \in Range(TextOrder) : \E r \in store : r[field] = Some(v)} \ {""}
            /\ \A i, j \in DOMAIN acc.list :
                  i < j => TextRank(acc.list[i]) < TextRank(acc.list[j])

\* a record with an empty county is stored next to one with a named
\* county, and only the named county is listed
C19_Witness ==
    /\ pc = "accessed"
    /\ acc.name = "get_unique_values"
    /\ acc.column = "County"
    /\ \E r \in store : r.county = Some("")
    /\ acc.list = <<"Autauga">>

\* C20: on an empty store the most-recent-ingestion accessor and the
\* min/max start-time accessor report that no value is available: neither
\* returns a concrete timestamp.
C20_EmptyStoreUnavailable ==
    (/\ pc = "accessed"
     /\ store = {}
     /\ acc.name \in {"get_last_update_time", "get_date_range"})
    => \A k \in DOMAIN acc.stamps : acc.stamps[k] = None

----------------------------------------------------------------------------
(* Claims about ingestion *)

\* the objects of the bodies that the first k fetches could read, in order
RECURSIVE Gathered(_)
Gathered(k) ==
    IF k = 0 THEN <<>>
    ELSE Gathered(k - 1) \o
         (IF responses[k].status = "ok" THEN responses[k].data ELSE <<>>)

\* a time field that is present but cannot be parsed
Garbled(x) == IF IsNull(x) THEN FALSE ELSE ~Val(x).valid

\* what a time field of the stored row must be: absent when the string is
\* missing or garbled, the parsed time otherwise
TimeKept(x) ==
    IF IsNull(x) THEN None
    ELSE IF Val(x).valid THEN Some(ApiText(Val(x).t)) ELSE None

\* the object carries a start latitude and a start longitude
HasCoordinatePair(event) == ~IsNull(event.latitude) /\ ~IsNull(event.longitude)

\* the refresh has ended, by returning or by an exception
RefreshEnded == ipc \in {"done", "raised"}

\* every body was read, or its failure was caught by get_api_response
NoneAborted == \A k \in DOMAIN responses : responses[k].status # "TypeError"

\* object k of the gathered list is the last one that was passed on for its id
LastPassed(all, k) ==
    /\ ~Skipped(all[k])
    /\ \A j \in DOMAIN all : j > k /\ all[j].id = all[k].id => Skipped(all[j])

\* the store holds the object with its times parsed and everything else as sent
StoredIntact(event) ==
    \E r \in store :
        /\ r.event_id = event.id
        /\ r.category = event.type
        /\ r.county = event.county
        /\ r.start_latitude = event.latitude
        /\ r.start_longitude = event.longitude
        /\ r.start_time = TimeKept(event.start)
        /\ r.end_time = TimeKept(event.end)
        /\ r.last_updated = TimeKept(event.lastUpdatedAt)

\* C21 (as claimed): after a refresh, every passed-on record with a garbled
\* start, end or last-updated time is in the store, with that field absent
\* and its other fields intact
C21_GarbledTimeKeepsRecord ==
    (RefreshEnded /\ NoneAborted) =>
        \A k \in DOMAIN Gathered(Len(EVENT_TYPES)) :
            LET all == Gathered(Len(EVENT_TYPES))
            IN  (/\ LastPassed(all, k)
                 /\ \/ Garbled(all[k].start)
                    \/ Garbled(all[k].end)
                    \/ Garbled(all[k].lastUpdatedAt))
                => StoredIntact(all[k])

\* the objects with a coordinate pair, converted, in order
RECURSIVE WithCoordinatePair(_)
WithCoordinatePair(data) ==
    IF data = <<>> THEN <<>>
    ELSE IF HasCoordinatePair(Head(data))
         THEN <<EventDict(Head(data))>> \o WithCoordinatePair(Tail(data))
         ELSE WithCoordinatePair(Tail(data))

\* C22 (as claimed): the records gathered for upsert are exactly the fetched
\* records that carry both a start latitude and a start longitude, so a
\* record is dropped exactly when it lacks one of them
C22_DropsExactlyCoordinateless ==
    all_events = WithCoordinatePair(Gathered(ik))

\* C23 (as claimed): a refresh in which the fetch of some event type failed
\* still visits every event type, and every record of the sources that
\* succeeded is in the store when the refresh ends
C23_FetchFailureIsolated ==
    (/\ RefreshEnded
     /\ \E k \in 1..ik :
            responses[k].status \in {"RequestException", "ValueError"})
    => /\ ik = Len(EVENT_TYPES)
       /\ \A k \in DOMAIN Gathered(Len(EVENT_TYPES)) :
            LET all == Gathered(Len(EVENT_TYPES))
            IN  LastPassed(all, k) => EventDict(all[k]) \in store

----------------------------------------------------------------------------
(* Claims about the script run *)

\* the three frames are what the three queries return on the store state s
FramesReflect(s) ==
    /\ frames.crashes \in OrderByStartTimeDesc(
            QueryRows(s, RunFilters("crashes", frames.county_filter)))
    /\ frames.prev_crashes \in OrderByStartTimeDesc(
            QueryRows(s, RunFilters("prev_crashes", frames.county_filter)))
    /\ frames.roadwork \in OrderByStartTimeDesc(
            QueryRows(s, RunFilters("roadwork", frames.county_filter)))

\* the states a store fed from the feed can be in: at most one row per identity
StoreStates ==
    {s \in SUBSET feed : \A a, b \in s : a.event_id = b.event_id => a = b}

\* C24 (as claimed): when the tabs derive their artifacts, there is one state
\* of the store that the crash set, the previous-period set and the roadwork
\* set all reflect
C24_SingleSnapshot ==
    rpc = "tabs" => \E s \in StoreStates : FramesReflect(s)

----------------------------------------------------------------------------
(* Claims about the transaction *)

\* the identities a frame holds
IdsOf(frame) == {frame[k].event_id : k \in DOMAIN frame}

\* C25: every identity a committed upsert stored is still stored (the set of
\* stored identities only grows), and a read that runs at any point of an
\* upsert returns every identity that was stored when it ran, the one being
\* replaced included
C25_NeverRemovesIdentity ==
    /\ everStored = {r.event_id : r \in store}
    /\ pc = "queried" => reading.stored \subseteq IdsOf(df)

\* a read ran between the delete and the insert of a replacement, and its
\* frame holds the identity being replaced
C25_Witness ==
    /\ pc = "queried"
    /\ reading.at = "deleted"
    /\ tpc = "deleted"
    /\ Head(pending).event_id \in IdsOf(df)
    /\ \A r \in working : r.event_id # Head(pending).event_id

----------------------------------------------------------------------------
(* Claims about the ranking table *)

\* C26 (as claimed): the rendered table is in descending order of Score, and
\* groups with equal scores keep the order the grouping gave them (ascending
\* key)
C26_DescendingStable ==
    gpc = "done" =>
        \A i, j \in DOMAIN stats : i < j =>
            /\ stats[i].Score >= stats[j].Score
            /\ stats[i].Score = stats[j].Score => stats[i].key < stats[j].key

\* calculate_danger_score on a severity column under a weight map
RECURSIVE ScoreUnder(_, _)
ScoreUnder(weights, series) ==
    IF weights = <<>> THEN 0
    ELSE ScoreAdds(series, Head(weights)) + ScoreUnder(Tail(weights), series)

\* C30 (as claimed): whatever weight map is configured, the Score shown for a
\* group equals the scoring function applied, under that map, to the
\* severities of the group
C30_TableUsesConfiguredWeights ==
    gpc = "done" =>
        \A k \in DOMAIN stats :
            stats[k].Score =
                ScoreUnder(configured, GroupSeverities(rank_rows, stats[k].key))

----------------------------------------------------------------------------
(* Claims about the pass over the incidents *)

\* the member counts of the clusters 0..c, added up
RECURSIVE SumMembers(_)
SumMembers(c) ==
    IF c < 0 THEN 0 ELSE Cardinality(MembersOf(c)) + SumMembers(c - 1)

\* the cluster ids one ordered pass gives: from incident i on, with the
\* incidents in asg taken, ids written so far and next the id to write
RECURSIVE OnePass(_, _, _, _)
OnePass(i, asg, ids, next) ==
    IF i > Len(coords) THEN ids
    ELSE IF i \in asg THEN OnePass(i + 1, asg, ids, next)
    ELSE LET grp == {i} \cup {j \in DOMAIN coords :
                        j > i /\ j \notin asg /\ WithinHalfMile(i, j)}
         IN  IF Cardinality(grp) >= 3
             THEN OnePass(i + 1, asg \cup grp,
                          [k \in DOMAIN ids |-> IF k \in grp THEN next ELSE ids[k]],
                          next + 1)
             ELSE OnePass(i + 1, asg \cup grp, ids, next)

\* C29: the groups of different seeds share no incident and the members of
\* a cluster are the group of one seed; an absorbed incident is compared
\* with no later seed; every incident before a seed was assigned when the
\* seed was taken, and a seed is compared only with later incidents; the
\* member counts add up to at most the number of incidents; and the ids at
\* the end are those of the one ordered pass over the input.
C29_DisjointOnePass ==
    /\ \A s, t \in seeds : s # t => GroupOf(s) \cap GroupOf(t) = {}
    /\ \A k \in DOMAIN cluster_ids :
          cluster_ids[k] # Unassigned =>
              MembersOf(cluster_ids[k]) = GroupOf(SeedOf(cluster_ids[k]))
    /\ \A p, q \in compared :
          (p[2] = q[2] /\ WithinHalfMile(p[1], p[2])) => q[1] <= p[1]
    /\ \A p \in compared : p[2] \in seeds => p[2] > p[1] /\ ~WithinHalfMile(p[1], p[2])
    /\ \A s \in seeds : \A k \in 1..(s - 1) : k \in assigned
    /\ \A p \in compared : p[1] \in seeds /\ p[1] < p[2]
    /\ assigned = UNION {GroupOf(s) : s \in seeds}
    /\ SumMembers(cluster_id - 1) <= Len(coords)
    /\ Len(coords) <= Len(points)
    /\ (kpc = "done" /\ coords # <<>>) =>
          cluster_ids = OnePass(1, {}, [k \in DOMAIN coords |-> Unassigned], 0)

\* a seed passed over a later incident that lies within half a mile of it
\* because an earlier seed, whose cluster was committed, had absorbed it
C29_Witness ==
    /\ kpc = "done"
    /\ \E s, t \in seeds :
        /\ s < t
        /\ cluster_ids[s] # Unassigned
        /\ \E k \in GroupOf(s) :
            /\ k > t
            /\ WithinHalfMile(t, k)
            /\ <<t, k>> \notin compared

----------------------------------------------------------------------------
(* Claims about the cluster summary *)

\* C27 (as claimed): every reported cluster has as many Crashes as incidents
\* carry its id, and its Location, Road and County are those of its seed,
\* the first member in input order, missing ones included
C27_DescriptorsOfSeed ==
    kpc = "returned" =>
        \A k \in DOMAIN cluster_stats :
            LET row == cluster_stats[k]
                seed == coords[SeedOf(row.cluster_id)]
            IN  /\ row.Crashes = Cardinality(MembersOf(row.cluster_id))
                /\ row.Location = seed.Location
                /\ row.Road = seed.Road
                /\ row.County = seed.County

\* C28: every cluster is reported once, and of two adjacent rows of the
\* result the earlier has at least as many members as the later
C28_OrderedByCountDescending ==
    kpc = "returned" =>
        /\ {cluster_stats[k].cluster_id : k \in DOMAIN cluster_stats}
              = {cluster_ids[k] : k \in DOMAIN cluster_ids} \ {Unassigned}
        /\ Len(cluster_stats) = cluster_id
        /\ \A k \in DOMAIN cluster_stats :
              k > 1 => cluster_stats[k - 1].Crashes >= cluster_stats[k].Crashes

\* the cluster found second is the larger one and is reported first
C28_Witness ==
    /\ kpc = "returned"
    /\ Len(cluster_stats) = 2
    /\ cluster_stats[1].cluster_id = 1
    /\ cluster_stats[1].Crashes > cluster_stats[2].Crashes

====
